---- MODULE Spec2Model ----
(***************************************************************************)
(* Authorization and token-lifecycle core of the Quiz-Management backend:  *)
(* the in-memory request throttle (AuthMiddleware.rateLimit), the gate     *)
(* middleware (authenticate / optionalAuth / authorize / selfOrAdmin /     *)
(* verifiedOnly, in both generations of the middleware), the user update   *)
(* handlers that sit behind the gate, login and registration, the tokens   *)
(* login issues, and the session trail (LogService / AuthService logs).    *)
(***************************************************************************)
EXTENDS Integers, Sequences, FiniteSets, TLC

(***************************************************************************)
(* Bounds of the model                                                     *)
(***************************************************************************)
\* number of clock ticks the throttle clock may advance
MaxTicks == 5
\* number of throttle requests that arrive in one behaviour
MaxCalls == 4
\* largest ceiling (maxRequests) a rateLimit instance is created with
MaxCeiling == 2

\* one clock tick, in milliseconds (Date.now() is in milliseconds)
TickMs == 500
\* window sizes (windowMs) a rateLimit instance is created with
Windows == {1000, 1500}

(***************************************************************************)
(* Values                                                                  *)
(***************************************************************************)
\* req.user before any authentication stage set it (undefined)
NoUser == [id |-> "", role |-> "", status |-> ""]

UserIds == {"u1", "u2"}
Ips == {"ip1"}
Roles == {"user", "coordinator", "moderator", "admin"}
Statuses == {"pending", "verified", "deleted"}

\* the claim-set carried by a token / attached to req.user
Claims == [id : UserIds, role : Roles, status : Statuses]

\* the requests the throttle sees: req.user is set only when an
\* authentication stage ran before the throttle
ThrottleReqs ==
  { [user |-> NoUser, ip |-> "ip1"],
    [user |-> [id |-> "u1", role |-> "user", status |-> "verified"], ip |-> "ip1"] }

VARIABLES
  now,          \* Date.now() of the process, in ms
  maxRequests,  \* rateLimit(maxRequests, windowMs): the ceiling of the instance
  windowMs,     \* rateLimit(maxRequests, windowMs): the window of the instance
  requests,     \* the instance's Map: identifier -> array of timestamps
  inflight,     \* requests that reached the server and wait for the middleware
  rlLog,        \* what the middleware answered to the requests of inflight
  gpc,          \* the gate: "idle", "running" (a request is in its chain), "done"
  gImpl,        \* which generation of the middleware and controllers serves it
  gRoute,       \* the route the request matched
  gChain,       \* the middleware and handler of the route still to run
  gReq,         \* the request: headers.authorization, params.userId, body, user
  gRes,         \* the response sent (status 0: none yet)
  gTrace,       \* the stages that ran, with whether each called next()
  users,        \* the User collection: _id -> role, status
  creds,        \* the User collection: email -> _id, password (the bcrypt hash)
  logs,         \* the Log collection, in insertion order (_id: the position)
  jwtExpiresIn, \* JWT_EXPIRES_IN of the process, in seconds
  issued,       \* the tokens handed to clients so far
  lpc,          \* login / register handler: "idle", "authenticated", "done"
  lImpl,        \* which generation serves the login or registration
  lReq,         \* its body (email, password, role) and whether the lookup fails
  lResult,      \* what the service call returned to the controller
  lRes,         \* the response sent (status 0: none yet)
  svc,          \* the last call of a session-trail service and what it returned
  other,        \* the closure of a second rateLimit(...) call: its own Map
  lastLoginResult, \* AuthController.logout: what its getLastLogin returned
  call          \* what the rateLimit middleware of the route did for the request

throttleVars == <<now, maxRequests, windowMs, requests, inflight, rlLog>>

gateVars == <<gpc, gImpl, gRoute, gChain, gReq, gRes, gTrace, users>>

sessionVars == <<creds, logs, jwtExpiresIn, issued, lpc, lImpl, lReq, lResult,
                 lRes, svc>>

moreVars == <<other, lastLoginResult, call>>

vars == <<now, maxRequests, windowMs, requests, inflight, rlLog,
          gpc, gImpl, gRoute, gChain, gReq, gRes, gTrace, users,
          creds, logs, jwtExpiresIn, issued, lpc, lImpl, lReq, lResult,
          lRes, svc, other, lastLoginResult, call>>

(***************************************************************************)
(* Tokens, headers, responses                                              *)
(***************************************************************************)
\* a token as jwt.verify sees it: what the check of its integrity gives and
\* the payload it carries
NoToken == [integrity |-> "none", claims |-> NoUser]

\* tokens with a good signature carry any payload generateToken can sign;
\* forged, expired and malformed ones claim the most privileged payload
Tokens ==
  [integrity : {"valid"}, claims : Claims]
    \cup [integrity : {"badsig", "expired", "malformed"},
          claims : {[id |-> "u1", role |-> "admin", status |-> "verified"]}]

\* req.headers.authorization: absent, "Bearer <token>", "Bearer " or "<token>"
NoHeader == [present |-> FALSE, bearer |-> FALSE, tok |-> NoToken]

Headers ==
  {NoHeader}
    \cup [present : {TRUE}, bearer : {TRUE}, tok : Tokens \cup {NoToken}]
    \cup [present : {TRUE}, bearer : {FALSE}, tok : Tokens]

\* no response sent yet
NoRes == [status |-> 0, message |-> "", requiredRoles |-> << >>,
          userRole |-> "", userStatus |-> ""]

\* res.status(status).json({ success: false, message })
Reject(status, message) ==
  [status |-> status, message |-> message, requiredRoles |-> << >>,
   userRole |-> "", userStatus |-> ""]

\* errorResponse(res, message, statusCode) of utils/response.js
errorResponse(message, statusCode) ==
  [status |-> statusCode, message |-> message, requiredRoles |-> << >>,
   userRole |-> "", userStatus |-> ""]

\* what a middleware did: the req.user it left, the response it sent (if
\* any) and whether it called next()
Outcome(user, res, next) == [user |-> user, res |-> res, next |-> next]

InSeq(x, sq) == \E i \in 1..Len(sq) : sq[i] = x

(***************************************************************************)
(* The gate middleware, first generation: class AuthMiddleware             *)
(***************************************************************************)
\* AuthMiddleware.verifyToken: the decoded payload, or null (NoUser)
verifyToken(token) ==
  IF token.integrity = "valid" THEN token.claims ELSE NoUser

\* AuthMiddleware.extractToken: null (NoToken) without a header, the part
\* after "Bearer " or the whole header otherwise
extractToken(req) ==
  LET authHeader == req.authorization
  IN IF ~authHeader.present THEN NoToken ELSE authHeader.tok

\* authenticate without the check of the account status
AuthMiddleware_authenticate_NoStatusCheck(req) ==
  LET token == extractToken(req)
      decoded == verifyToken(token)
  IN IF token = NoToken
     THEN Outcome(req.user, Reject(401, "Access denied. No token provided."), FALSE)
     ELSE IF decoded = NoUser
     THEN Outcome(req.user, Reject(401, "Invalid or expired token."), FALSE)
     ELSE Outcome(decoded, NoRes, TRUE)

\* AuthMiddleware.authenticate
AuthMiddleware_authenticate(req) ==
  LET token == extractToken(req)
      decoded == verifyToken(token)
  IN IF token = NoToken
     THEN Outcome(req.user, Reject(401, "Access denied. No token provided."), FALSE)
     ELSE IF decoded = NoUser
     THEN Outcome(req.user, Reject(401, "Invalid or expired token."), FALSE)
     ELSE IF decoded.status = "deleted"
     THEN Outcome(req.user, Reject(401, "Account has been deactivated."), FALSE)
     ELSE Outcome(decoded, NoRes, TRUE)

\* AuthMiddleware.optionalAuth
AuthMiddleware_optionalAuth(req) ==
  LET token == extractToken(req)
      decoded == verifyToken(token)
  IN IF token # NoToken /\ decoded # NoUser /\ decoded.status # "deleted"
     THEN Outcome(decoded, NoRes, TRUE)
     ELSE Outcome(req.user, NoRes, TRUE)

\* AuthMiddleware.authorize(allowedRoles)
AuthMiddleware_authorize(allowedRoles, req) ==
  IF req.user = NoUser
  THEN Outcome(req.user, Reject(401, "Authentication required."), FALSE)
  ELSE IF Len(allowedRoles) = 0
  THEN Outcome(req.user, NoRes, TRUE)
  ELSE IF ~InSeq(req.user.role, allowedRoles)
  THEN Outcome(req.user,
         [status |-> 403,
          message |-> "Access denied. Insufficient permissions.",
          requiredRoles |-> allowedRoles, userRole |-> req.user.role,
          userStatus |-> ""],
         FALSE)
  ELSE Outcome(req.user, NoRes, TRUE)

\* the role lists of adminOnly, moderatorAndAbove, coordinatorAndAbove and of
\* authorize() with its default
AllowedRoles(stage) ==
  CASE stage = "adminOnly" -> <<"admin">>
    [] stage = "moderatorAndAbove" -> <<"admin", "moderator">>
    [] stage = "coordinatorAndAbove" -> <<"admin", "moderator", "coordinator">>
    [] OTHER -> << >>

\* selfOrAdmin that forwards admins only
AuthMiddleware_selfOrAdmin_NoSelf(req) ==
  IF req.user = NoUser
  THEN Outcome(req.user, Reject(401, "Authentication required."), FALSE)
  ELSE IF req.user.role = "admin"
  THEN Outcome(req.user, NoRes, TRUE)
  ELSE Outcome(req.user,
         Reject(403, "Access denied. You can only access your own data."),
         FALSE)

\* AuthMiddleware.selfOrAdmin(userIdParam = "userId")
AuthMiddleware_selfOrAdmin(req) ==
  IF req.user = NoUser
  THEN Outcome(req.user, Reject(401, "Authentication required."), FALSE)
  ELSE LET targetUserId == req.userId
           currentUserId == req.user.id
           userRole == req.user.role
       IN IF userRole = "admin"
          THEN Outcome(req.user, NoRes, TRUE)
          ELSE IF targetUserId = currentUserId
          THEN Outcome(req.user, NoRes, TRUE)
          ELSE Outcome(req.user,
                 Reject(403, "Access denied. You can only access your own data."),
                 FALSE)

\* verifiedOnly that compares the status before it looks for req.user
AuthMiddleware_verifiedOnly_StatusFirst(req) ==
  IF req.user.status # "verified"
  THEN Outcome(req.user,
         [status |-> 403, message |-> "Account verification required.",
          requiredRoles |-> << >>, userRole |-> "",
          userStatus |-> req.user.status],
         FALSE)
  ELSE Outcome(req.user, NoRes, TRUE)

\* AuthMiddleware.verifiedOnly
AuthMiddleware_verifiedOnly(req) ==
  IF req.user = NoUser
  THEN Outcome(req.user, Reject(401, "Authentication required."), FALSE)
  ELSE IF req.user.status # "verified"
  THEN Outcome(req.user,
         [status |-> 403, message |-> "Account verification required.",
          requiredRoles |-> << >>, userRole |-> "",
          userStatus |-> req.user.status],
         FALSE)
  ELSE Outcome(req.user, NoRes, TRUE)

(***************************************************************************)
(* The gate middleware, second generation: auth.middleware.js              *)
(***************************************************************************)
\* an authenticate that turns a token away once its subject has a closed
\* session document
authenticate_RevokedByLogout(req) ==
  LET authHeader == req.authorization
      token == authHeader.tok
  IN IF ~authHeader.present \/ ~authHeader.bearer
     THEN Outcome(req.user,
            errorResponse("Access denied. No token provided.", 401), FALSE)
     ELSE IF token.integrity \in {"none", "badsig", "malformed"}
     THEN Outcome(req.user, errorResponse("Invalid token.", 401), FALSE)
     ELSE IF token.integrity = "expired"
     THEN Outcome(req.user, errorResponse("Token expired.", 401), FALSE)
     ELSE IF token.claims.status = "deleted"
     THEN Outcome(req.user,
            errorResponse("Account has been deactivated.", 401), FALSE)
     ELSE IF \E k \in 1..Len(logs) :
               logs[k].loginId = token.claims.id /\ logs[k].loggedOutAt >= 0
     THEN Outcome(req.user, errorResponse("Invalid token.", 401), FALSE)
     ELSE Outcome(token.claims, NoRes, TRUE)

\* authenticate: only "Bearer <token>" is read; jwt.verify throws on a bad
\* token and the catch block maps the error name to the message
authenticate(req) ==
  LET authHeader == req.authorization
      token == authHeader.tok
  IN IF ~authHeader.present \/ ~authHeader.bearer
     THEN Outcome(req.user,
            errorResponse("Access denied. No token provided.", 401), FALSE)
     ELSE IF token.integrity \in {"none", "badsig", "malformed"}
     THEN Outcome(req.user, errorResponse("Invalid token.", 401), FALSE)
     ELSE IF token.integrity = "expired"
     THEN Outcome(req.user, errorResponse("Token expired.", 401), FALSE)
     ELSE IF token.claims.status = "deleted"
     THEN Outcome(req.user,
            errorResponse("Account has been deactivated.", 401), FALSE)
     ELSE Outcome(token.claims, NoRes, TRUE)

\* authorize(roles)
authorize(roles, req) ==
  IF req.user = NoUser
  THEN Outcome(req.user, errorResponse("Authentication required.", 401), FALSE)
  ELSE IF Len(roles) = 0
  THEN Outcome(req.user, NoRes, TRUE)
  ELSE IF ~InSeq(req.user.role, roles)
  THEN Outcome(req.user,
         errorResponse("Access denied. Insufficient permissions.", 403), FALSE)
  ELSE Outcome(req.user, NoRes, TRUE)

\* selfOrAdmin(userIdParam = 'userId')
selfOrAdmin(req) ==
  IF req.user = NoUser
  THEN Outcome(req.user, errorResponse("Authentication required.", 401), FALSE)
  ELSE LET targetUserId == req.userId
           currentUserId == req.user.id
           userRole == req.user.role
       IN IF userRole = "admin" \/ targetUserId = currentUserId
          THEN Outcome(req.user, NoRes, TRUE)
          ELSE Outcome(req.user,
                 errorResponse("Access denied. You can only access your own data.", 403),
                 FALSE)

(***************************************************************************)
(* Routes: the middleware chains the routers register                      *)
(***************************************************************************)
AuthorizeStages ==
  {"authorize", "adminOnly", "moderatorAndAbove", "coordinatorAndAbove"}

\* routes/auth/userRoutes.js, routes/auth/authRoutes.js and
\* routes/quiz/participantRoutes.js, and the same paths in the second
\* generation's routers
WiredRoutes ==
  { [name |-> "GET /api/users/:userId",
     chain |-> <<"authenticate", "selfOrAdmin", "getUserById">>],
    [name |-> "GET /api/users",
     chain |-> <<"authenticate", "moderatorAndAbove", "handler">>],
    [name |-> "POST /api/users",
     chain |-> <<"authenticate", "adminOnly", "handler">>],
    [name |-> "GET /api/participants/stats",
     chain |-> <<"authenticate", "coordinatorAndAbove", "handler">>] }

\* the two routes that update a user record (the same chains in both
\* generations; validateUser only checks the shape of the body)
UpdateRoutes ==
  { [name |-> "PUT /api/users/:userId",
     chain |-> <<"authenticate", "selfOrAdmin", "updateUser">>],
    [name |-> "PUT /api/auth/profile",
     chain |-> <<"authenticate", "updateProfile">>] }

\* every authorization stage of AuthMiddleware, placed behind optionalAuth
\* (which forwards with or without a claim-set), and verifiedOnly behind
\* authenticate
LegacyStageRoutes ==
  { [name |-> "optionalAuth", chain |-> <<"optionalAuth", st, "handler">>] :
      st \in AuthorizeStages \cup {"selfOrAdmin", "verifiedOnly"} }
    \cup { [name |-> "verifiedOnly",
            chain |-> <<"authenticate", "verifiedOnly", "handler">>] }

\* every authorization stage of auth.middleware.js on a router that did not
\* register authenticate
V2StageRoutes ==
  { [name |-> "unauthenticated", chain |-> <<st, "handler">>] :
      st \in AuthorizeStages \cup {"selfOrAdmin"} }

RoutesOf(impl) ==
  IF impl = "legacy" THEN WiredRoutes \cup LegacyStageRoutes
  ELSE WiredRoutes \cup V2StageRoutes

\* req.body of the update requests: the role and status it asks for
\* ("": the field is not in the body)
Bodies == [role : {"", "admin"}, status : {"", "deleted", "verified"}]

NoBody == [role |-> "", status |-> ""]

NoReq == [authorization |-> NoHeader, userId |-> "", body |-> NoBody,
          user |-> NoUser, ip |-> ""]

(***************************************************************************)
(* The store and the handlers behind the gate                              *)
(***************************************************************************)
\* { $set: data } on one document
SetFields(doc, data) ==
  [role |-> IF data.role # "" THEN data.role ELSE doc.role,
   status |-> IF data.status # "" THEN data.status ELSE doc.status]

\* delete updateData.role; delete updateData.status;
StripRoleStatus(updateData) == [updateData EXCEPT !.role = "", !.status = ""]

\* DB.update("User", data, { _id: userId }): updateMany with $set
DBUpdate(store, userId, data) ==
  IF userId \in DOMAIN store
  THEN [store EXCEPT ![userId] = SetFields(@, data)]
  ELSE store

\* User.findByIdAndUpdate(userId, updateData, { new: true, runValidators: true })
findByIdAndUpdate(store, userId, updateData) ==
  IF userId \in DOMAIN store
  THEN [store EXCEPT ![userId] = SetFields(@, updateData)]
  ELSE store

\* first generation, UserController.updateUser: what reaches UserService.updateUser
UserController_updateData(req) ==
  IF req.user.role # "admin" THEN StripRoleStatus(req.body) ELSE req.body

\* second generation, UserController.updateUser: req.body goes to
\* UserService.updateUser as it is
updateUser_updateData(req) == req.body

\* AuthController.updateProfile (both generations)
updateProfile_updateData(req) == StripRoleStatus(req.body)

Ok(message) ==
  [status |-> 200, message |-> message, requiredRoles |-> << >>,
   userRole |-> "", userStatus |-> ""]

(***************************************************************************)
(* Accounts, issued tokens and the session trail: values                   *)
(***************************************************************************)
\* the e-mail addresses of the login and registration bodies; "c@x" belongs
\* to no account until it is registered
Emails == {"a@x", "b@x", "c@x"}

Passwords == {"pw1", "pw2"}

\* the _id the store gives the account a registration creates
NewUserId == "u3"

\* bcrypt.hash(password, 12)
bcryptHash(password) == <<"$2a$12$", password>>

\* bcrypt.compare(password, hashedPassword)
bcryptCompare(password, hashedPassword) == hashedPassword = bcryptHash(password)

\* the accounts of the store at start: a@x is u1, b@x is u2
InitCreds ==
  [e \in {"a@x", "b@x"} |->
     IF e = "a@x" THEN [id |-> "u1", password |-> bcryptHash("pw1")]
     ELSE [id |-> "u2", password |-> bcryptHash("pw2")]]

\* no User document
NoDoc == [id |-> "", email |-> "", password |-> << >>, role |-> "",
          status |-> ""]

\* no token (jwt.sign was not called)
NoJwt == [claims |-> NoUser, iat |-> -1, exp |-> -1]

\* loggedOutAt of a Log document that has none
NoDate == -1

\* no Log document
NoLog == [id |-> 0, loginId |-> "", email |-> "", loggedInAt |-> NoDate,
          loggedOutAt |-> NoDate]

NoLoginReq == [kind |-> "", email |-> "", password |-> "", role |-> "",
               fault |-> FALSE]

NoResult == [success |-> FALSE, message |-> "", data |-> NoDoc,
             token |-> NoJwt]

NoLoginRes == [status |-> 0, message |-> "", token |-> NoJwt]

NoSvc == [op |-> "", impl |-> "", arg |-> "", logId |-> 0,
          success |-> FALSE, message |-> "", data |-> NoLog]

\* logout has not asked for the last login (or no logout is being served)
NoLastLogin == [success |-> FALSE, message |-> "", data |-> NoLog]

\* no call of a rateLimit middleware
NoCall == [key |-> "", time |-> -1, status |-> 0, retryAfter |-> 0,
           oldest |-> -1, raced |-> FALSE, threw |-> FALSE]

\* a second instance, rateLimit(1, 1500), that served no request yet
NewOther == [maxRequests |-> 1, windowMs |-> 1500, requests |-> << >>]

\* no login or registration is being served and nothing was logged or issued
SessionIdle ==
  /\ creds = InitCreds
  /\ logs = << >>
  /\ jwtExpiresIn = 2
  /\ issued = {}
  /\ lpc = "idle"
  /\ lImpl = "legacy"
  /\ lReq = NoLoginReq
  /\ lResult = NoResult
  /\ lRes = NoLoginRes
  /\ svc = NoSvc
  /\ other = NewOther
  /\ lastLoginResult = NoLastLogin
  /\ call = NoCall

(***************************************************************************)
(* The gate: one request at a time through the chain of its route          *)
(***************************************************************************)
InitUsers ==
  [u \in UserIds |->
     IF u = "u1" THEN [role |-> "user", status |-> "pending"]
     ELSE [role |-> "moderator", status |-> "verified"]]

GateIdle ==
  /\ gpc = "idle"
  /\ gImpl = "legacy"
  /\ gRoute = ""
  /\ gChain = << >>
  /\ gReq = NoReq
  /\ gRes = NoRes
  /\ gTrace = << >>

InitGate ==
  /\ GateIdle
  /\ users = InitUsers
  /\ now = 0
  /\ maxRequests = 0
  /\ windowMs = 1000
  /\ requests = << >>
  /\ inflight = [r \in ThrottleReqs |-> 0]
  /\ rlLog = << >>
  /\ SessionIdle

\* Express matched a route and starts its chain
NewRequest(impl, route, header, userId, body) ==
  /\ gpc = "idle"
  /\ gpc' = "running"
  /\ gImpl' = impl
  /\ gRoute' = route.name
  /\ gChain' = route.chain
  /\ gReq' = [authorization |-> header, userId |-> userId, body |-> body,
              user |-> NoUser, ip |-> "ip1"]
  /\ gRes' = NoRes
  /\ gTrace' = << >>
  /\ UNCHANGED users
  /\ UNCHANGED throttleVars
  /\ UNCHANGED moreVars
  /\ UNCHANGED sessionVars

\* the target ids of a request, where the chain reads :userId
TargetsOf(route) ==
  IF \E i \in 1..Len(route.chain) :
       route.chain[i] \in {"selfOrAdmin", "getUserById", "updateUser"}
  THEN UserIds ELSE {""}

\* a middleware whose rejections do not return: the chain goes on
RunMiddleware_NoReturn(stage, out) ==
  /\ gpc = "running"
  /\ gChain # << >>
  /\ Head(gChain) = stage
  /\ gReq' = [gReq EXCEPT !.user = out.user]
  /\ gRes' = out.res
  /\ gTrace' = Append(gTrace, [stage |-> stage, next |-> out.next])
  /\ gChain' = Tail(gChain)
  /\ gpc' = "running"
  /\ UNCHANGED <<gImpl, gRoute, users>>
  /\ UNCHANGED throttleVars
  /\ UNCHANGED moreVars
  /\ UNCHANGED sessionVars

\* a middleware ran: it set req.user or not, and either called next() or
\* sent a response, which ends the chain
RunMiddleware(stage, out) ==
  /\ gpc = "running"
  /\ gChain # << >>
  /\ Head(gChain) = stage
  /\ gReq' = [gReq EXCEPT !.user = out.user]
  /\ gRes' = out.res
  /\ gTrace' = Append(gTrace, [stage |-> stage, next |-> out.next])
  /\ IF out.next
     THEN gChain' = Tail(gChain) /\ gpc' = "running"
     ELSE gChain' = << >> /\ gpc' = "done"
  /\ UNCHANGED <<gImpl, gRoute, users>>
  /\ UNCHANGED throttleVars
  /\ UNCHANGED moreVars
  /\ UNCHANGED sessionVars

StepAuthenticate ==
  RunMiddleware("authenticate",
    IF gImpl = "legacy" THEN AuthMiddleware_authenticate(gReq)
    ELSE authenticate(gReq))

StepOptionalAuth ==
  RunMiddleware("optionalAuth", AuthMiddleware_optionalAuth(gReq))

StepAuthorize ==
  \E stage \in AuthorizeStages :
    RunMiddleware(stage,
      IF gImpl = "legacy"
      THEN AuthMiddleware_authorize(AllowedRoles(stage), gReq)
      ELSE authorize(AllowedRoles(stage), gReq))

StepSelfOrAdmin ==
  RunMiddleware("selfOrAdmin",
    IF gImpl = "legacy" THEN AuthMiddleware_selfOrAdmin(gReq)
    ELSE selfOrAdmin(gReq))

StepVerifiedOnly ==
  RunMiddleware("verifiedOnly", AuthMiddleware_verifiedOnly(gReq))

\* a handler ran: it is the last of the chain and sends the response
RunHandler(stage, res, store) ==
  /\ gpc = "running"
  /\ gChain # << >>
  /\ Head(gChain) = stage
  /\ gRes' = res
  /\ users' = store
  /\ gTrace' = Append(gTrace, [stage |-> stage, next |-> FALSE])
  /\ gChain' = << >>
  /\ gpc' = "done"
  /\ UNCHANGED <<gImpl, gRoute, gReq>>
  /\ UNCHANGED throttleVars
  /\ UNCHANGED moreVars
  /\ UNCHANGED sessionVars

\* the business logic of the routes whose handler the gate only forwards to
StepHandler == RunHandler("handler", Ok("ok"), users)

\* UserController.getUserById
StepGetUserById ==
  RunHandler("getUserById",
    IF gReq.userId \in DOMAIN users THEN Ok("ok")
    ELSE Reject(404, "User not found"),
    users)

\* UserController.updateUser with UserService.updateUser, of the generation
\* that serves the request
StepUpdateUser ==
  IF gImpl = "legacy"
  THEN LET updateData == UserController_updateData(gReq)
           store == DBUpdate(users, gReq.userId, updateData)
       IN RunHandler("updateUser",
            IF store = users
            THEN Reject(400, "User not found or no changes made")
            ELSE Ok("User updated successfully"),
            store)
  ELSE LET store == findByIdAndUpdate(users, gReq.userId,
                                      updateUser_updateData(gReq))
       IN RunHandler("updateUser",
            IF gReq.userId \in DOMAIN users
            THEN Ok("User updated successfully")
            ELSE Reject(400, "User not found"),
            store)

\* AuthController.updateProfile with UserService.updateUser, of the
\* generation that serves the request
StepUpdateProfile ==
  IF gImpl = "legacy"
  THEN LET store == DBUpdate(users, gReq.user.id, updateProfile_updateData(gReq))
       IN RunHandler("updateProfile",
            IF store = users
            THEN Reject(400, "User not found or no changes made")
            ELSE Ok("Profile updated successfully"),
            store)
  ELSE LET store == findByIdAndUpdate(users, gReq.user.id,
                                      updateProfile_updateData(gReq))
       IN RunHandler("updateProfile",
            IF gReq.user.id \in DOMAIN users
            THEN Ok("User updated successfully")
            ELSE Reject(400, "User not found"),
            store)

\* the response is out and the handler's locals are gone; the server takes
\* the next request
Done ==
  /\ gpc = "done"
  /\ gpc' = "idle"
  /\ gImpl' = "legacy"
  /\ gRoute' = ""
  /\ gChain' = << >>
  /\ gReq' = NoReq
  /\ gRes' = NoRes
  /\ gTrace' = << >>
  /\ lastLoginResult' = NoLastLogin
  /\ call' = NoCall
  /\ UNCHANGED other
  /\ UNCHANGED users
  /\ UNCHANGED throttleVars
  /\ UNCHANGED sessionVars

\* the requests of the routes that read the store at most
GateRequest ==
  \E impl \in {"legacy", "v2"} : \E route \in RoutesOf(impl) :
    \E header \in Headers : \E userId \in TargetsOf(route) :
      NewRequest(impl, route, header, userId, NoBody)

\* the requests of the routes that update a user record
UpdateRequest ==
  \E impl \in {"legacy", "v2"} : \E route \in UpdateRoutes :
    \E header \in Headers : \E userId \in TargetsOf(route) :
      \E body \in Bodies :
        NewRequest(impl, route, header, userId, body)

NextGate ==
  \/ GateRequest
  \/ StepAuthenticate
  \/ StepOptionalAuth
  \/ StepAuthorize
  \/ StepSelfOrAdmin
  \/ StepVerifiedOnly
  \/ StepHandler
  \/ StepGetUserById
  \/ Done

NextUsers ==
  \/ UpdateRequest
  \/ StepAuthenticate
  \/ StepSelfOrAdmin
  \/ StepUpdateUser
  \/ StepUpdateProfile
  \/ Done

SpecGate == InitGate /\ [][NextGate]_vars

SpecUsers == InitGate /\ [][NextUsers]_vars

(***************************************************************************)
(* Request throttle: AuthMiddleware.rateLimit                              *)
(***************************************************************************)
\* a key that is the origin for every request
Identifier_AlwaysIp(req) == req.ip

\* const identifier = req.user ? req.user.id : req.ip;
Identifier(req) == IF req.user # NoUser THEN req.user.id ELSE req.ip

\* a clean-up that drops nothing
ValidRequests_KeepAll(userRequests, windowStart) == userRequests

\* userRequests.filter((time) => time > windowStart)
ValidRequests(userRequests, windowStart) ==
  SelectSeq(userRequests, LAMBDA time : time > windowStart)

\* a read that misses what the other requests appended
MapGet_Stale(map, identifier) == << >>

\* requests.get(identifier) || []
MapGet(map, identifier) ==
  IF identifier \in DOMAIN map THEN map[identifier] ELSE <<>>

\* a set that forgets every other key
MapSet_OnlyKey(map, identifier, value) == [k \in {identifier} |-> value]

\* requests.set(identifier, value)
MapSet(map, identifier, value) ==
  [k \in (DOMAIN map) \cup {identifier} |->
     IF k = identifier THEN value ELSE map[k]]

\* the "Clean old entries" block
CleanOld(map, identifier, windowStart) ==
  IF identifier \in DOMAIN map
  THEN MapSet(map, identifier, ValidRequests(map[identifier], windowStart))
  ELSE map

\* Math.ceil(windowMs / 1000)
RetryAfter(w) == (w + 999) \div 1000

\* the comparison off by one
OverLimit_OffByOne(currentRequests, ceiling) == Len(currentRequests) > ceiling

\* currentRequests.length >= maxRequests
OverLimit(currentRequests, ceiling) == Len(currentRequests) >= ceiling

RECURSIVE SumOver(_, _)
SumOver(f, S) ==
  IF S = {} THEN 0
  ELSE LET x == CHOOSE y \in S : TRUE IN f[x] + SumOver(f, S \ {x})

\* requests that arrived and were not yet answered
InflightCount == SumOver(inflight, ThrottleReqs)

InitThrottle ==
  /\ now = 0
  /\ maxRequests \in 0..MaxCeiling
  /\ windowMs \in Windows
  /\ requests = << >>
  /\ inflight = [r \in ThrottleReqs |-> 0]
  /\ rlLog = << >>
  /\ GateIdle
  /\ users = InitUsers
  /\ SessionIdle

\* the clock of the process advances
Tick ==
  /\ now + TickMs <= MaxTicks * TickMs
  /\ now' = now + TickMs
  /\ UNCHANGED <<maxRequests, windowMs, requests, inflight, rlLog>>
  /\ UNCHANGED moreVars
  /\ UNCHANGED gateVars
  /\ UNCHANGED sessionVars

\* a request reaches the server; it is handled when the event loop runs
\* its middleware, in any order relative to the other waiting requests
Arrive(req) ==
  /\ Len(rlLog) + InflightCount < MaxCalls
  /\ inflight' = [inflight EXCEPT ![req] = @ + 1]
  /\ UNCHANGED <<now, maxRequests, windowMs, requests, rlLog>>
  /\ UNCHANGED moreVars
  /\ UNCHANGED gateVars
  /\ UNCHANGED sessionVars

\* the middleware returned by rateLimit(maxRequests, windowMs), run for one
\* waiting request.  The function body is synchronous: it runs to completion
\* before any other request's middleware runs.  rlLog keeps what the caller
\* saw (status 0: next() was called), the oldest entry left after the
\* clean-up (-1: none), whether another request of the key was waiting and
\* whether the catch block ran.
RateLimit(req) ==
  /\ inflight[req] > 0
  /\ inflight' = [inflight EXCEPT ![req] = @ - 1]
  /\ LET identifier == Identifier(req)
         windowStart == now - windowMs
         cleaned == CleanOld(requests, identifier, windowStart)
         currentRequests == MapGet(cleaned, identifier)
         oldest == IF currentRequests = << >> THEN -1 ELSE currentRequests[1]
         raced == SumOver(inflight,
                    {r \in ThrottleReqs : Identifier(r) = identifier}) >= 2
     IN IF OverLimit(currentRequests, maxRequests)
        THEN /\ requests' = cleaned
             /\ rlLog' = Append(rlLog,
                  [key |-> identifier, time |-> now, status |-> 429,
                   retryAfter |-> RetryAfter(windowMs), oldest |-> oldest,
                   raced |-> raced, threw |-> FALSE])
        ELSE /\ requests' = MapSet(cleaned, identifier,
                                   Append(currentRequests, now))
             /\ rlLog' = Append(rlLog,
                  [key |-> identifier, time |-> now, status |-> 0,
                   retryAfter |-> 0, oldest |-> oldest,
                   raced |-> raced, threw |-> FALSE])
  /\ UNCHANGED <<now, maxRequests, windowMs>>
  /\ UNCHANGED moreVars
  /\ UNCHANGED gateVars
  /\ UNCHANGED sessionVars

NextThrottle ==
  \/ Tick
  \/ \E req \in ThrottleReqs : Arrive(req)
  \/ \E req \in ThrottleReqs : RateLimit(req)

SpecThrottle == InitThrottle /\ [][NextThrottle]_vars

(***************************************************************************)
(* Login and registration: UserService / AuthService behind AuthController *)
(***************************************************************************)
\* bound: the Log collection holds at most this many documents
MaxLogs == 2

\* error.message of the error the store driver throws
StoreError == "store error"

\* the User document of an e-mail address, as the store holds it
UserDoc(email) ==
  [id |-> creds[email].id, email |-> email,
   password |-> creds[email].password,
   role |-> users[creds[email].id].role,
   status |-> users[creds[email].id].status]

\* const userResponse = user.toObject(); delete userResponse.password;
WithoutPassword(user) == [user EXCEPT !.password = << >>]

\* { success: false, message }
Failure(message) ==
  [success |-> FALSE, message |-> message, data |-> NoDoc, token |-> NoJwt]

\* { success: true, message, data } (second generation: data: { user, token })
Success(message, user, token) ==
  [success |-> TRUE, message |-> message, data |-> user, token |-> token]

\* a token whose payload always says role user
generateToken_RoleUser(user, time) ==
  [claims |-> [id |-> user.id, role |-> "user", status |-> user.status],
   iat |-> time \div 1000,
   exp |-> (time \div 1000) + jwtExpiresIn]

\* AuthMiddleware.generateToken / AuthService.generateToken: jwt.sign of
\* { id, email, role, status } with expiresIn; iat and exp are in seconds
generateToken(user, time) ==
  [claims |-> [id |-> user.id, role |-> user.role, status |-> user.status],
   iat |-> time \div 1000,
   exp |-> (time \div 1000) + jwtExpiresIn]

\* UserService.getUserByEmail: DB.select throws when the store fails and
\* the catch block turns the error into { success: false }
getUserByEmail(email, fault) ==
  IF fault THEN Failure(StoreError)
  ELSE IF email \notin DOMAIN creds THEN Failure("User not found")
  ELSE Success("", UserDoc(email), NoJwt)

\* authenticateUser that compares the password before it looks at the status
authenticateUser_PasswordFirst(email, password, fault) ==
  LET userResult == getUserByEmail(email, fault)
      user == userResult.data
  IN IF ~userResult.success
     THEN Failure("Invalid email or password")
     ELSE IF ~bcryptCompare(password, user.password)
     THEN Failure("Invalid email or password")
     ELSE IF user.status = "deleted"
     THEN Failure("Account has been deactivated")
     ELSE Success("Authentication successful", WithoutPassword(user), NoJwt)

\* UserService.authenticateUser (first generation)
authenticateUser(email, password, fault) ==
  LET userResult == getUserByEmail(email, fault)
      user == userResult.data
  IN IF ~userResult.success
     THEN Failure("Invalid email or password")
     ELSE IF user.status = "deleted"
     THEN Failure("Account has been deactivated")
     ELSE IF ~bcryptCompare(password, user.password)
     THEN Failure("Invalid email or password")
     ELSE Success("Authentication successful", WithoutPassword(user), NoJwt)

\* login without the check of the account status
AuthService_login_NoStatusCheck(email, password, fault) ==
  IF fault THEN Failure(StoreError)
  ELSE IF email \notin DOMAIN creds
  THEN Failure("Invalid email or password")
  ELSE LET user == UserDoc(email)
       IN IF ~bcryptCompare(password, user.password)
          THEN Failure("Invalid email or password")
          ELSE Success("Login successful", WithoutPassword(user),
                       generateToken(user, now))

\* AuthService.login (second generation): User.findOne throws when the store
\* fails and the catch block returns the error's message
AuthService_login(email, password, fault) ==
  IF fault THEN Failure(StoreError)
  ELSE IF email \notin DOMAIN creds
  THEN Failure("Invalid email or password")
  ELSE LET user == UserDoc(email)
       IN IF user.status = "deleted"
          THEN Failure("Account has been deactivated")
          ELSE IF ~bcryptCompare(password, user.password)
          THEN Failure("Invalid email or password")
          ELSE Success("Login successful", WithoutPassword(user),
                       generateToken(user, now))

\* res.status(status).json({ success, message, data: { user, token } })
LoginRes(status, message, token) ==
  [status |-> status, message |-> message, token |-> token]

\* AuthController.login up to the answer of the service: the response it
\* sends at once (status 0: none, the handler goes on to the token and the log)
AuthController_login(impl, email, password, fault) ==
  LET result == IF impl = "legacy" THEN authenticateUser(email, password, fault)
                ELSE AuthService_login(email, password, fault)
  IN IF email = "" \/ password = ""
     THEN [result |-> NoResult,
           res |-> LoginRes(400, "Email and password are required", NoJwt)]
     ELSE IF ~result.success
     THEN [result |-> result, res |-> LoginRes(401, result.message, NoJwt)]
     ELSE [result |-> result, res |-> NoLoginRes]

\* DB.insert("Log", doc) / new Log(doc).save(): the document gets its _id
DBInsert(collection, doc) ==
  Append(collection, [doc EXCEPT !.id = Len(collection) + 1])

\* a createLoginLog that reuses the identity's open document
createLoginLog_ReuseOpen(collection, logData, time) ==
  IF \E i \in 1..Len(collection) :
       collection[i].loginId = logData.loginId
         /\ collection[i].loggedOutAt = NoDate
  THEN [i \in 1..Len(collection) |->
          IF collection[i].loginId = logData.loginId
               /\ collection[i].loggedOutAt = NoDate
          THEN [collection[i] EXCEPT !.loggedInAt = time]
          ELSE collection[i]]
  ELSE DBInsert(collection,
         [id |-> 0, loginId |-> logData.loginId, email |-> logData.email,
          loggedInAt |-> time, loggedOutAt |-> NoDate])

\* LogService.createLoginLog / AuthService.createLoginLog: loggedInAt is
\* new Date() (Date.now by the schema's default), loggedOutAt is not set
createLoginLog(collection, logData, time) ==
  DBInsert(collection,
    [id |-> 0, loginId |-> logData.loginId, email |-> logData.email,
     loggedInAt |-> time, loggedOutAt |-> NoDate])

\* POST /api/auth/login reaches AuthController.login: the service call
LoginAuthenticate(impl, email, password, fault) ==
  /\ lpc = "idle"
  /\ Len(logs) < MaxLogs
  /\ LET out == AuthController_login(impl, email, password, fault)
     IN /\ lResult' = out.result
        /\ lRes' = out.res
        /\ lpc' = IF out.res.status = 0 THEN "authenticated" ELSE "done"
  /\ lImpl' = impl
  /\ lReq' = [kind |-> "login", email |-> email, password |-> password,
              role |-> "", fault |-> fault]
  /\ UNCHANGED <<creds, logs, jwtExpiresIn, issued, svc>>
  /\ UNCHANGED throttleVars
  /\ UNCHANGED moreVars
  /\ UNCHANGED gateVars

\* UserService.createUser (role: role || "user", status "pending") and
\* AuthService.register (new User({ ...userData }), the schema's defaults):
\* the account the registration creates
NewAccount(role) ==
  [role |-> IF role = "" THEN "user" ELSE role, status |-> "pending"]

\* POST /api/auth/register reaches AuthController.register: createUser /
\* AuthService.register
RegisterCreate(impl, email, password, role) ==
  /\ lpc = "idle"
  /\ Len(logs) < MaxLogs
  /\ lImpl' = impl
  /\ lReq' = [kind |-> "register", email |-> email, password |-> password,
              role |-> role, fault |-> FALSE]
  /\ IF email \in DOMAIN creds
     THEN /\ lResult' = Failure("User with this email already exists")
          /\ lRes' = LoginRes(400, "User with this email already exists", NoJwt)
          /\ lpc' = "done"
          /\ UNCHANGED <<creds, users>>
     ELSE LET account == NewAccount(role)
              user == [id |-> NewUserId, email |-> email, password |-> << >>,
                       role |-> account.role, status |-> account.status]
          IN /\ creds' = MapSet(creds, email,
                           [id |-> NewUserId, password |-> bcryptHash(password)])
             /\ users' = MapSet(users, NewUserId, account)
             /\ lResult' = Success("User registered successfully", user,
                             IF impl = "legacy" THEN NoJwt
                             ELSE generateToken(user, now))
             /\ lRes' = NoLoginRes
             /\ lpc' = "authenticated"
  /\ UNCHANGED <<logs, jwtExpiresIn, issued, svc>>
  /\ UNCHANGED throttleVars
  /\ UNCHANGED moreVars
  /\ UNCHANGED <<gpc, gImpl, gRoute, gChain, gReq, gRes, gTrace>>

\* the rest of AuthController.login / register: the token (first generation:
\* generateToken is called here), createLoginLog and the response
LoginRespond ==
  /\ lpc = "authenticated"
  /\ LET user == lResult.data
         token == IF lImpl = "legacy" THEN generateToken(user, now)
                  ELSE lResult.token
     IN /\ logs' = createLoginLog(logs,
                     [loginId |-> user.id, email |-> user.email], now)
        /\ issued' = issued \cup {token}
        /\ lRes' = IF lReq.kind = "register"
                   THEN LoginRes(201, "User registered successfully", token)
                   ELSE LoginRes(200, "Login successful", token)
  /\ lpc' = "done"
  /\ UNCHANGED <<creds, jwtExpiresIn, lImpl, lReq, lResult, svc>>
  /\ UNCHANGED throttleVars
  /\ UNCHANGED moreVars
  /\ UNCHANGED gateVars

\* the response is out; the server takes the next login or registration
LoginDone ==
  /\ lpc = "done"
  /\ lpc' = "idle"
  /\ lImpl' = "legacy"
  /\ lReq' = NoLoginReq
  /\ lResult' = NoResult
  /\ lRes' = NoLoginRes
  /\ UNCHANGED <<creds, logs, jwtExpiresIn, issued, svc>>
  /\ UNCHANGED throttleVars
  /\ UNCHANGED moreVars
  /\ UNCHANGED gateVars

LoginRequest ==
  \E impl \in {"legacy", "v2"} : \E email \in Emails \cup {""} :
    \E password \in Passwords \cup {""} : \E fault \in BOOLEAN :
      LoginAuthenticate(impl, email, password, fault)

RegisterRequest ==
  \E impl \in {"legacy", "v2"} : \E email \in {"a@x", "c@x"} :
    \E role \in {"", "admin"} :
      RegisterCreate(impl, email, "pw1", role)

\* every store state: the status of a@x's account is any of the three
InitLogin ==
  /\ now = 0
  /\ maxRequests = 0
  /\ windowMs = 1000
  /\ requests = << >>
  /\ inflight = [r \in ThrottleReqs |-> 0]
  /\ rlLog = << >>
  /\ GateIdle
  /\ users \in { [InitUsers EXCEPT !["u1"].status = st] : st \in Statuses }
  /\ SessionIdle

NextLogin ==
  \/ LoginRequest
  \/ RegisterRequest
  \/ LoginRespond
  \/ LoginDone
  \/ Tick

SpecLogin == InitLogin /\ [][NextLogin]_vars

(***************************************************************************)
(* The session trail: LogService and the log methods of AuthService        *)
(***************************************************************************)
\* bound: number of clock ticks while the session trail and the issued
\* tokens are exercised
MaxClockTicks == 2

\* the documents of a collection
Docs(collection) == {collection[i] : i \in 1..Len(collection)}

\* Model.updateMany({ _id: logId }, { $set: { loggedOutAt } }) and
\* Log.findByIdAndUpdate(logId, { loggedOutAt }): the collection afterwards
SetLoggedOutAt(collection, logId, time) ==
  [i \in 1..Len(collection) |->
     IF collection[i].id = logId
     THEN [collection[i] EXCEPT !.loggedOutAt = time]
     ELSE collection[i]]

\* result.modifiedCount: the documents the update changed
ModifiedCount(before, after) ==
  Cardinality({i \in 1..Len(before) : before[i] # after[i]})

\* what a service of the trail returns, with the collection it leaves
SvcResult(collection, success, message, data) ==
  [logs |-> collection, success |-> success, message |-> message,
   data |-> data]

\* LogService.updateLogoutTime (first generation)
LogService_updateLogoutTime(collection, logId, time) ==
  LET after == SetLoggedOutAt(collection, logId, time)
      modifiedCount == ModifiedCount(collection, after)
  IN IF modifiedCount = 0
     THEN SvcResult(after, FALSE, "Log entry not found", NoLog)
     ELSE SvcResult(after, TRUE, "Logout time updated successfully", NoLog)

\* AuthService.updateLogoutTime (second generation): the document that
\* findByIdAndUpdate returns (null without a match) is not looked at
AuthService_updateLogoutTime(collection, logId, time) ==
  SvcResult(SetLoggedOutAt(collection, logId, time), TRUE,
            "Logout time updated", NoLog)

\* a query that only finds the documents without loggedOutAt
SortedFirst_OpenOnly(collection, userId) ==
  {r \in Docs(collection) :
     /\ r.loginId = userId
     /\ r.loggedOutAt = NoDate
     /\ \A q \in Docs(collection) :
          (q.loginId = userId /\ q.loggedOutAt = NoDate)
            => q.loggedInAt <= r.loggedInAt}

\* find({ loginId: userId }).sort({ loggedInAt: -1 }).limit(1): the documents
\* the store may put first (documents with equal loggedInAt come in any order)
SortedFirst(collection, userId) ==
  {r \in Docs(collection) :
     /\ r.loginId = userId
     /\ \A q \in Docs(collection) :
          q.loginId = userId => q.loggedInAt <= r.loggedInAt}

\* LogService.getLastLogin / AuthService.getLastLogin: found is what the
\* query returned (a set with one document, or empty)
getLastLogin(collection, found) ==
  IF found = {}
  THEN SvcResult(collection, FALSE, "No login history found", NoLog)
  ELSE SvcResult(collection, TRUE, "", CHOOSE r \in found : TRUE)

\* a service of the trail was called and returned
Called(op, impl, arg, logId, result) ==
  /\ svc = NoSvc
  /\ svc' = [op |-> op, impl |-> impl, arg |-> arg, logId |-> logId,
             success |-> result.success, message |-> result.message,
             data |-> result.data]
  /\ logs' = result.logs
  /\ UNCHANGED <<creds, jwtExpiresIn, issued, lpc, lImpl, lReq, lResult, lRes>>
  /\ UNCHANGED throttleVars
  /\ UNCHANGED moreVars
  /\ UNCHANGED gateVars

\* createLoginLog({ loginId, email, ... }) for the account of an e-mail
CallCreateLoginLog(impl, email) ==
  /\ Len(logs) < MaxLogs
  /\ Called("createLoginLog", impl, creds[email].id, 0,
       SvcResult(createLoginLog(logs,
                   [loginId |-> creds[email].id, email |-> email], now),
                 TRUE, "Login log created successfully", NoLog))

\* updateLogoutTime(logId)
CallUpdateLogoutTime(impl, logId) ==
  Called("updateLogoutTime", impl, "", logId,
    IF impl = "legacy" THEN LogService_updateLogoutTime(logs, logId, now)
    ELSE AuthService_updateLogoutTime(logs, logId, now))

\* getLastLogin(userId)
CallGetLastLogin(impl, userId) ==
  IF SortedFirst(logs, userId) = {}
  THEN Called("getLastLogin", impl, userId, 0, getLastLogin(logs, {}))
  ELSE \E r \in SortedFirst(logs, userId) :
         Called("getLastLogin", impl, userId, 0, getLastLogin(logs, {r}))

\* the caller has the result; the next call may start
Returned ==
  /\ svc # NoSvc
  /\ svc' = NoSvc
  /\ UNCHANGED <<creds, logs, jwtExpiresIn, issued, lpc, lImpl, lReq, lResult,
                 lRes>>
  /\ UNCHANGED throttleVars
  /\ UNCHANGED moreVars
  /\ UNCHANGED gateVars

\* the clock of the process advances
ClockTick ==
  /\ now + TickMs <= MaxClockTicks * TickMs
  /\ now' = now + TickMs
  /\ UNCHANGED <<maxRequests, windowMs, requests, inflight, rlLog>>
  /\ UNCHANGED moreVars
  /\ UNCHANGED gateVars
  /\ UNCHANGED sessionVars

NextTrail ==
  \/ \E impl \in {"legacy", "v2"} : \E email \in DOMAIN creds :
       CallCreateLoginLog(impl, email)
  \/ \E impl \in {"legacy", "v2"} : \E logId \in 1..(MaxLogs + 1) :
       CallUpdateLogoutTime(impl, logId)
  \/ \E impl \in {"legacy", "v2"} : \E userId \in UserIds :
       CallGetLastLogin(impl, userId)
  \/ Returned
  \/ ClockTick

SpecTrail == InitGate /\ [][NextTrail]_vars

(***************************************************************************)
(* Issued tokens at the gate: expiry and changes of the store              *)
(***************************************************************************)
\* bound: the clients hold at most this many tokens
MaxIssued == 1

\* JWT_EXPIRES_IN values of the process, in seconds (0: no lifetime at all)
ExpiresIns == {0, 1}

\* jwt.verify(token, JWT_SECRET) of a token that generateToken signed, at
\* the given time: the payload, or TokenExpiredError once the clock (in
\* seconds) has reached exp
jwtVerify(token, time) ==
  [integrity |-> IF time \div 1000 >= token.exp THEN "expired" ELSE "valid",
   claims |-> token.claims]

\* the Authorization header of a client that sends a token it was handed
HeaderOf(token, bearer, time) ==
  [present |-> TRUE, bearer |-> bearer, tok |-> jwtVerify(token, time)]

\* a client presents a token it was handed on one of the routers' routes
TokenRequest ==
  \E impl \in {"legacy", "v2"} : \E route \in WiredRoutes :
    \E token \in issued : \E userId \in TargetsOf(route) :
      NewRequest(impl, route, HeaderOf(token, TRUE, now), userId, NoBody)

\* a login with the account's own password; the middleware chain of a
\* request is synchronous, so no step of a login runs inside it
TokenLogin ==
  /\ gpc = "idle"
  /\ Cardinality(issued) < MaxIssued
  /\ \E impl \in {"legacy", "v2"} : \E email \in DOMAIN creds :
       \E password \in Passwords :
         /\ bcryptCompare(password, creds[email].password)
         /\ LoginAuthenticate(impl, email, password, FALSE)

\* the token, the log and the response of that login
TokenLoginRespond == gpc = "idle" /\ LoginRespond

TokenLoginDone == gpc = "idle" /\ LoginDone

\* the store changes behind the issued tokens
StoreChange(store) ==
  /\ gpc = "idle"
  /\ users' = store
  /\ users' # users
  /\ UNCHANGED <<gpc, gImpl, gRoute, gChain, gReq, gRes, gTrace>>
  /\ UNCHANGED throttleVars
  /\ UNCHANGED moreVars
  /\ UNCHANGED sessionVars

\* UserService.deleteUser(userId): the soft delete
CallDeleteUser(userId) ==
  StoreChange(DBUpdate(users, userId, [role |-> "", status |-> "deleted"]))

\* UserService.updateUser(userId, { role }) on behalf of an admin
CallUpdateRole(userId, role) ==
  StoreChange(DBUpdate(users, userId, [role |-> role, status |-> ""]))

InitTokens ==
  /\ now = 0
  /\ maxRequests = 0
  /\ windowMs = 1000
  /\ requests = << >>
  /\ inflight = [r \in ThrottleReqs |-> 0]
  /\ rlLog = << >>
  /\ GateIdle
  /\ users = InitUsers
  /\ creds = InitCreds
  /\ logs = << >>
  /\ jwtExpiresIn \in ExpiresIns
  /\ issued = {}
  /\ lpc = "idle"
  /\ lImpl = "legacy"
  /\ lReq = NoLoginReq
  /\ lResult = NoResult
  /\ lRes = NoLoginRes
  /\ svc = NoSvc
  /\ other = NewOther
  /\ lastLoginResult = NoLastLogin
  /\ call = NoCall

NextTokens ==
  \/ TokenLogin
  \/ TokenLoginRespond
  \/ TokenLoginDone
  \/ \E userId \in UserIds : CallDeleteUser(userId)
  \/ \E role \in {"user", "admin"} : CallUpdateRole("u1", role)
  \/ TokenRequest
  \/ StepAuthenticate
  \/ StepAuthorize
  \/ StepSelfOrAdmin
  \/ StepHandler
  \/ StepGetUserById
  \/ Done
  \/ ClockTick

SpecTokens == InitTokens /\ [][NextTokens]_vars

(***************************************************************************)
(* Logout: AuthController.logout behind authenticate                       *)
(***************************************************************************)
\* router.post("/logout", authenticate, AuthController.logout)
LogoutRoute ==
  [name |-> "POST /api/auth/logout", chain |-> <<"authenticate", "logout">>]

\* what the handler keeps of a service result: { success, message, data }
Kept(result) ==
  [success |-> result.success, message |-> result.message,
   data |-> result.data]

\* a close that leaves a document alone once it has a loggedOutAt
updateLogoutTime_KeepClosed(impl, collection, logId, time) ==
  IF \E r \in Docs(collection) : r.id = logId /\ r.loggedOutAt # NoDate
  THEN SvcResult(collection, FALSE, "Log entry not found", NoLog)
  ELSE AuthService_updateLogoutTime(collection, logId, time)

\* LogService.updateLogoutTime / AuthService.updateLogoutTime of the
\* generation that serves the request
updateLogoutTime(impl, collection, logId, time) ==
  IF impl = "legacy" THEN LogService_updateLogoutTime(collection, logId, time)
  ELSE AuthService_updateLogoutTime(collection, logId, time)

\* AuthController.logout up to its first await: if (req.user), the last
\* login of req.user.id is asked for
StepLogoutLookup ==
  /\ gpc = "running"
  /\ gChain # << >>
  /\ Head(gChain) = "logout"
  /\ lastLoginResult = NoLastLogin
  /\ IF gReq.user = NoUser
     THEN lastLoginResult' = [NoLastLogin EXCEPT !.message = "no req.user"]
     ELSE IF SortedFirst(logs, gReq.user.id) = {}
     THEN lastLoginResult' = Kept(getLastLogin(logs, {}))
     ELSE \E r \in SortedFirst(logs, gReq.user.id) :
            lastLoginResult' = Kept(getLastLogin(logs, {r}))
  /\ UNCHANGED <<other, call>>
  /\ UNCHANGED throttleVars
  /\ UNCHANGED gateVars
  /\ UNCHANGED sessionVars

\* the rest of AuthController.logout: if the lookup succeeded, the document
\* it returned is closed by its _id; the answer is "Logout successful" in
\* every case
StepLogoutClose ==
  /\ gpc = "running"
  /\ gChain # << >>
  /\ Head(gChain) = "logout"
  /\ lastLoginResult # NoLastLogin
  /\ logs' = IF lastLoginResult.success
             THEN updateLogoutTime(gImpl, logs, lastLoginResult.data.id,
                                   now).logs
             ELSE logs
  /\ gRes' = Ok("Logout successful")
  /\ gTrace' = Append(gTrace, [stage |-> "logout", next |-> FALSE])
  /\ gChain' = << >>
  /\ gpc' = "done"
  /\ UNCHANGED <<gImpl, gRoute, gReq, users>>
  /\ UNCHANGED <<creds, jwtExpiresIn, issued, lpc, lImpl, lReq, lResult, lRes,
                 svc>>
  /\ UNCHANGED moreVars
  /\ UNCHANGED throttleVars

\* a client that holds a token logs out with it
LogoutRequest ==
  \E impl \in {"legacy", "v2"} : \E token \in issued :
    NewRequest(impl, LogoutRoute, HeaderOf(token, TRUE, now), "", NoBody)

\* a login with the account's own password, at any time: the handlers of
\* two requests interleave at their awaits
SessionLogin ==
  \E impl \in {"legacy", "v2"} : \E email \in DOMAIN creds :
    \E password \in Passwords :
      /\ bcryptCompare(password, creds[email].password)
      /\ LoginAuthenticate(impl, email, password, FALSE)

NextLogout ==
  \/ SessionLogin
  \/ LoginRespond
  \/ LoginDone
  \/ LogoutRequest
  \/ TokenRequest
  \/ StepAuthenticate
  \/ StepAuthorize
  \/ StepSelfOrAdmin
  \/ StepHandler
  \/ StepGetUserById
  \/ StepLogoutLookup
  \/ StepLogoutClose
  \/ Done
  \/ ClockTick

SpecLogout == InitGate /\ [][NextLogout]_vars

(***************************************************************************)
(* The throttle on a route: each rateLimit(...) call of a router makes a   *)
(* middleware with a Map of its own                                        *)
(***************************************************************************)
\* router.post("/", AuthMiddleware.rateLimit(10, 15 * 60 * 1000),
\*             ParticipantController.createParticipant)
ParticipantRoute ==
  [name |-> "POST /api/participants",
   chain |-> <<"rateLimit", "createParticipant">>]

\* a route that places a rateLimit(...) of its own behind optionalAuth, which
\* sets req.user when the request carries a token that verifies
ThrottledStageRoute ==
  [name |-> "optionalAuth, rateLimit",
   chain |-> <<"optionalAuth", "rateLimit", "handler">>]

\* req.ip of the requests on a throttled route: two origins reach the
\* participants route, one of them the other route as well
Origins(route) ==
  IF route = ParticipantRoute THEN {"ip1", "ip2"} ELSE {"ip1"}

\* the requests on the throttled routes come without a token or with the
\* token of u1
ThrottledHeaders ==
  {NoHeader,
   [present |-> TRUE, bearer |-> TRUE,
    tok |-> [integrity |-> "valid",
             claims |-> [id |-> "u1", role |-> "user",
                         status |-> "verified"]]]}

\* where the try block of the middleware throws: nowhere, before the
\* bookkeeping, after the clean-up was stored, after the push
ThrowPoints == {"none", "start", "cleaned", "pushed"}

\* a catch block that answers 429 instead of calling next()
rateLimitMiddleware_FailClosed(map, ceiling, window, req, time, thrown) ==
  LET identifier == Identifier(req)
      cleaned == CleanOld(map, identifier, time - window)
      currentRequests == MapGet(cleaned, identifier)
  IN IF thrown # "none" \/ OverLimit(currentRequests, ceiling)
     THEN [requests |-> cleaned, key |-> identifier, status |-> 429,
           next |-> FALSE, threw |-> thrown # "none"]
     ELSE [requests |-> MapSet(cleaned, identifier,
                               Append(currentRequests, time)),
           key |-> identifier, status |-> 0, next |-> TRUE, threw |-> FALSE]

\* the middleware rateLimit(ceiling, window) returns, run on the Map of its
\* closure: the Map it leaves, the key it used, the status it sent (0: none)
\* and whether it called next().  An error thrown in the try block lands in
\* the catch block, which calls next().  currentRequests is the array the
\* Map holds when the key had an entry (push changes it in place) and a new
\* array otherwise (only requests.set puts it into the Map).
rateLimitMiddleware(map, ceiling, window, req, time, thrown) ==
  LET identifier == Identifier(req)
      windowStart == time - window
      cleaned == CleanOld(map, identifier, windowStart)
      currentRequests == MapGet(cleaned, identifier)
      pushed == MapSet(cleaned, identifier, Append(currentRequests, time))
      caught(m) == [requests |-> m, key |-> identifier, status |-> 0,
                    next |-> TRUE, threw |-> TRUE]
  IN CASE thrown = "start" -> caught(map)
       [] thrown = "cleaned" -> caught(cleaned)
       [] thrown # "cleaned" /\ thrown # "start"
            /\ OverLimit(currentRequests, ceiling) ->
            [requests |-> cleaned, key |-> identifier, status |-> 429,
             next |-> FALSE, threw |-> FALSE]
       [] thrown = "pushed" /\ ~OverLimit(currentRequests, ceiling) ->
            caught(IF identifier \in DOMAIN cleaned THEN pushed ELSE cleaned)
       [] OTHER ->
            [requests |-> pushed, key |-> identifier, status |-> 0,
             next |-> TRUE, threw |-> FALSE]

\* a request reaches one of the throttled routes
ThrottledRequest ==
  /\ gpc = "idle"
  /\ \E route \in {ParticipantRoute, ThrottledStageRoute} :
       \E header \in ThrottledHeaders : \E ip \in Origins(route) :
         /\ gRoute' = route.name
         /\ gChain' = route.chain
         /\ gReq' = [authorization |-> header, userId |-> "",
                     body |-> NoBody, user |-> NoUser, ip |-> ip]
  /\ gpc' = "running"
  /\ gImpl' = "legacy"
  /\ gRes' = NoRes
  /\ gTrace' = << >>
  /\ UNCHANGED users
  /\ UNCHANGED throttleVars
  /\ UNCHANGED moreVars
  /\ UNCHANGED sessionVars

\* the rateLimit middleware of the route runs: the participants route has
\* the first instance, the other route its own
StepRateLimit ==
  /\ gpc = "running"
  /\ gChain # << >>
  /\ Head(gChain) = "rateLimit"
  /\ \E thrown \in ThrowPoints :
       LET first == gRoute = ParticipantRoute.name
           window == IF first THEN windowMs ELSE other.windowMs
           before == IF first THEN requests ELSE other.requests
           out == rateLimitMiddleware(before,
                    IF first THEN maxRequests ELSE other.maxRequests,
                    window, gReq, now, thrown)
           left == MapGet(out.requests, out.key)
       IN /\ call' = [key |-> out.key, time |-> now, status |-> out.status,
                       retryAfter |-> IF out.status = 429
                                      THEN RetryAfter(window) ELSE 0,
                       oldest |-> IF out.status = 429 /\ left # << >>
                                  THEN left[1] ELSE -1,
                       raced |-> FALSE, threw |-> out.threw]
          /\ IF first
             THEN requests' = out.requests /\ UNCHANGED other
             ELSE other' = [other EXCEPT !.requests = out.requests]
                    /\ UNCHANGED requests
          /\ gRes' = IF out.next THEN gRes
                     ELSE Reject(429,
                            "Too many requests. Please try again later.")
          /\ gTrace' = Append(gTrace,
                         [stage |-> "rateLimit", next |-> out.next])
          /\ IF out.next
             THEN gChain' = Tail(gChain) /\ gpc' = "running"
             ELSE gChain' = << >> /\ gpc' = "done"
  /\ UNCHANGED <<now, maxRequests, windowMs, inflight, rlLog>>
  /\ UNCHANGED <<gImpl, gRoute, gReq, users>>
  /\ UNCHANGED lastLoginResult
  /\ UNCHANGED sessionVars

\* ParticipantController.createParticipant: the business logic behind the
\* throttle
StepCreateParticipant == RunHandler("createParticipant", Ok("ok"), users)

InitThrottled ==
  /\ now = 0
  /\ maxRequests = 2
  /\ windowMs = 1000
  /\ requests = << >>
  /\ inflight = [r \in ThrottleReqs |-> 0]
  /\ rlLog = << >>
  /\ GateIdle
  /\ users = InitUsers
  /\ SessionIdle

NextThrottled ==
  \/ ThrottledRequest
  \/ StepOptionalAuth
  \/ StepRateLimit
  \/ StepCreateParticipant
  \/ StepHandler
  \/ Done
  \/ ClockTick

SpecThrottled == InitThrottled /\ [][NextThrottled]_vars

(***************************************************************************)
(* Token refresh: AuthController.refreshToken behind authenticate          *)
(***************************************************************************)
\* router.post("/refresh", authenticate, AuthController.refreshToken)
RefreshRoute ==
  [name |-> "POST /api/auth/refresh",
   chain |-> <<"authenticate", "refreshToken">>]

\* UserService.getUserById(userId): the document without its password, or
\* "User not found"
getUserById(store, userId) ==
  IF userId \in DOMAIN store
  THEN Success("", [id |-> userId, email |-> "", password |-> << >>,
                    role |-> store[userId].role,
                    status |-> store[userId].status], NoJwt)
  ELSE Failure("User not found")

\* a refresh that signs the payload of the presented token again
refreshToken_FromPayload(impl, user, store, time) ==
  LET result == getUserById(store, user.id)
      again == [id |-> user.id, email |-> "", password |-> << >>,
                role |-> user.role, status |-> user.status]
  IN IF ~result.success
     THEN [res |-> Reject(404, "User not found"), token |-> NoJwt]
     ELSE [res |-> Ok("Token refreshed successfully"),
           token |-> generateToken(again, time)]

\* AuthController.refreshToken of both generations: getUserById(req.user.id),
\* 404 "User not found" without a document, else generateToken(result.data)
refreshToken(impl, user, store, time) ==
  LET result == getUserById(store, user.id)
  IN IF ~result.success
     THEN [res |-> IF impl = "legacy" THEN Reject(404, "User not found")
                   ELSE errorResponse("User not found", 404),
           token |-> NoJwt]
     ELSE [res |-> Ok("Token refreshed successfully"),
           token |-> generateToken(result.data, time)]

\* the handler of the refresh route
StepRefreshToken ==
  /\ gpc = "running"
  /\ gChain # << >>
  /\ Head(gChain) = "refreshToken"
  /\ LET out == refreshToken(gImpl, gReq.user, users, now)
     IN /\ gRes' = out.res
        /\ issued' = IF out.token = NoJwt THEN issued
                     ELSE issued \cup {out.token}
  /\ gTrace' = Append(gTrace, [stage |-> "refreshToken", next |-> FALSE])
  /\ gChain' = << >>
  /\ gpc' = "done"
  /\ UNCHANGED <<gImpl, gRoute, gReq, users>>
  /\ UNCHANGED <<creds, logs, jwtExpiresIn, lpc, lImpl, lReq, lResult, lRes,
                 svc>>
  /\ UNCHANGED moreVars
  /\ UNCHANGED throttleVars

\* a client asks for a new token with a token it was handed
RefreshRequest ==
  /\ Cardinality(issued) <= MaxIssued
  /\ \E impl \in {"legacy", "v2"} : \E token \in issued :
       NewRequest(impl, RefreshRoute, HeaderOf(token, TRUE, now), "", NoBody)

\* the document of an account leaves the User collection (no service of
\* the repository removes one: deleteUser only sets the status)
RemoveUser(userId) ==
  /\ gpc = "idle"
  /\ lpc = "idle"
  /\ userId \in DOMAIN users
  /\ users' = [u \in (DOMAIN users) \ {userId} |-> users[u]]
  /\ creds' = [e \in {x \in DOMAIN creds : creds[x].id # userId} |-> creds[e]]
  /\ UNCHANGED <<gpc, gImpl, gRoute, gChain, gReq, gRes, gTrace>>
  /\ UNCHANGED <<logs, jwtExpiresIn, issued, lpc, lImpl, lReq, lResult, lRes,
                 svc>>
  /\ UNCHANGED moreVars
  /\ UNCHANGED throttleVars

NextRefresh ==
  \/ TokenLogin
  \/ TokenLoginRespond
  \/ TokenLoginDone
  \/ \E userId \in UserIds : CallDeleteUser(userId)
  \/ \E role \in {"user", "admin"} : CallUpdateRole("u1", role)
  \/ \E userId \in UserIds : RemoveUser(userId)
  \/ RefreshRequest
  \/ StepAuthenticate
  \/ StepRefreshToken
  \/ Done
  \/ ClockTick

SpecRefresh == InitGate /\ [][NextRefresh]_vars

(***************************************************************************)
(* Properties of the request throttle                                      *)
(***************************************************************************)
ThrottleKeys == {Identifier(r) : r \in ThrottleReqs}

\* the calls of key k the middleware answered so far (indices of rlLog)
CallsOf(k) == {i \in 1..Len(rlLog) : rlLog[i].key = k}

\* the admitted ones among them
AdmittedOf(k) == {i \in CallsOf(k) : rlLog[i].status = 0}

\* C1: for every key, the number of admitted requests whose timestamp lies in
\* the trailing window (now - windowMs, now] never exceeds the ceiling, and
\* the stored timestamp sequence of a key never holds more than ceiling
\* entries (every stored entry being the timestamp of an admitted request).
C1_CeilingNeverExceeded ==
  /\ \A k \in DOMAIN requests : Len(requests[k]) <= maxRequests
  /\ \A k \in ThrottleKeys :
       Cardinality({i \in AdmittedOf(k) : rlLog[i].time > now - windowMs})
         <= maxRequests

\* a key is at its ceiling, a request of it was turned away and an older
\* admitted request has already left the window
C1_Witness ==
  \E k \in DOMAIN requests :
    /\ maxRequests >= 1
    /\ Len(requests[k]) = maxRequests
    /\ \E i \in CallsOf(k) : rlLog[i].status = 429
    /\ \E i \in AdmittedOf(k) : rlLog[i].time <= now - windowMs

\* C2: with ceiling 1, the calls of one key that all fall inside one window
\* get exactly one allow (all the others are denied), in whatever order the
\* waiting requests are run.
C2_ExactlyOneAllow ==
  maxRequests = 1 =>
    \A k \in ThrottleKeys :
      ( /\ CallsOf(k) # {}
        /\ \A i, j \in CallsOf(k) : rlLog[j].time - rlLog[i].time < windowMs )
      => Cardinality(AdmittedOf(k)) = 1

\* three requests of one key, two of them run while another one of the key
\* was waiting, all answered inside one window: one allow, two denies
C2_Witness ==
  /\ maxRequests = 1
  /\ \E k \in ThrottleKeys :
       /\ Cardinality(CallsOf(k)) >= 3
       /\ \A i, j \in CallsOf(k) : rlLog[j].time - rlLog[i].time < windowMs
       /\ Cardinality({i \in CallsOf(k) : rlLog[i].raced}) >= 2
       /\ Cardinality(AdmittedOf(k)) = 1
       /\ Cardinality(CallsOf(k) \ AdmittedOf(k)) >= 2

\* the first `ceiling' calls of a key are admitted
C3_FirstCallsAdmitted ==
  \A i \in 1..Len(rlLog) :
    Cardinality({j \in CallsOf(rlLog[i].key) : j < i}) < maxRequests
      => rlLog[i].status = 0

\* a call is denied when `ceiling' admitted calls of the key lie less than a
\* window before it
C3_FurtherCallDenied ==
  \A i \in 1..Len(rlLog) :
    Cardinality({j \in AdmittedOf(rlLog[i].key) :
                   j < i /\ rlLog[i].time - rlLog[j].time < windowMs})
      >= maxRequests
      => rlLog[i].status = 429

\* a call made when more than a window has elapsed since the oldest counted
\* (stored) call of its key is admitted
C3_AdmittedAfterWindow ==
  \A req \in ThrottleReqs :
    ( /\ RateLimit(req)
      /\ maxRequests >= 1
      /\ MapGet(requests, Identifier(req)) # << >>
      /\ now - MapGet(requests, Identifier(req))[1] > windowMs )
    => rlLog'[Len(rlLog')].status = 0

\* C3: for a single key the first `ceiling' calls are admitted, a further
\* call inside that window is denied, and a call made once more than the
\* window has elapsed since the oldest counted call is admitted again.
C3_WindowBoundary ==
  /\ [](C3_FirstCallsAdmitted /\ C3_FurtherCallDenied)
  /\ [][C3_AdmittedAfterWindow]_vars

\* ceiling 2: two calls admitted, a third inside the window denied, a fourth
\* made more than a window after the first admitted
C3_Witness ==
  /\ maxRequests = 2
  /\ Len(rlLog) = 4
  /\ \A i \in 1..4 : rlLog[i].key = rlLog[1].key
  /\ rlLog[1].status = 0 /\ rlLog[2].status = 0
  /\ rlLog[3].status = 429 /\ rlLog[4].status = 0
  /\ rlLog[3].time - rlLog[1].time < windowMs
  /\ rlLog[4].time - rlLog[1].time > windowMs

\* C4: whenever the middleware denies a request, the retry-after it reports
\* (in seconds, rounded up) is the time until the oldest remaining entry of
\* the key leaves the window: windowMs - (now - oldest).
C4_RetryAfterUntilOldestLeaves ==
  \A i \in 1..Len(rlLog) :
    (rlLog[i].status = 429 /\ rlLog[i].oldest >= 0)
      => rlLog[i].retryAfter
           = RetryAfter(windowMs - (rlLog[i].time - rlLog[i].oldest))

(***************************************************************************)
(* Properties of the gate                                                  *)
(***************************************************************************)
\* the total order user < coordinator < moderator < admin
RoleRank(role) ==
  CASE role = "admin" -> 3
    [] role = "moderator" -> 2
    [] role = "coordinator" -> 1
    [] OTHER -> 0

\* the floor of a role-floor stage
FloorOf(stage) ==
  CASE stage = "adminOnly" -> "admin"
    [] stage = "moderatorAndAbove" -> "moderator"
    [] OTHER -> "coordinator"

FloorStages == {"adminOnly", "moderatorAndAbove", "coordinatorAndAbove"}

\* the stages of the current request that ran (indices of gTrace)
Ran(stages) == {i \in 1..Len(gTrace) : gTrace[i].stage \in stages}

HandlerStages == {"handler", "getUserById", "updateUser", "updateProfile"}

\* the request carries a token that verifies
PresentsValidToken ==
  /\ gReq.authorization.present
  /\ gReq.authorization.tok.integrity = "valid"

\* C5: a request whose token verifies but whose claim-set has status deleted
\* is rejected by authenticate (401, whatever the role), optionalAuth does
\* not establish its claim-set, and so req.user never has status deleted.
C5_DeletedRejectedAtGate ==
  /\ gReq.user.status # "deleted"
  /\ (PresentsValidToken /\ gReq.authorization.tok.claims.status = "deleted")
       => /\ gReq.user = NoUser
          /\ \A i \in Ran({"authenticate"}) :
               ~gTrace[i].next /\ gRes.status = 401

\* an admin's token with a good signature and status deleted was turned
\* away by authenticate
C5_Witness ==
  /\ gpc = "done"
  /\ PresentsValidToken
  /\ gReq.authorization.bearer
  /\ gReq.authorization.tok.claims.status = "deleted"
  /\ gReq.authorization.tok.claims.role = "admin"
  /\ gTrace = <<[stage |-> "authenticate", next |-> FALSE]>>
  /\ gRes.status = 401

\* C6: authorize, selfOrAdmin and verifiedOnly look for req.user first: a
\* request without an established claim-set is rejected by them with 401,
\* never with 403, whatever the roles, the target id or the status asked for.
C6_UnauthenticatedBeforeForbidden ==
  \A i \in Ran(AuthorizeStages \cup {"selfOrAdmin", "verifiedOnly"}) :
    gReq.user = NoUser => (~gTrace[i].next /\ gRes.status = 401)

\* a forged token that names the target itself reached selfOrAdmin without a
\* claim-set and got 401
C6_Witness ==
  /\ gpc = "done"
  /\ gReq.authorization.tok.integrity = "badsig"
  /\ gReq.authorization.tok.claims.id = gReq.userId
  /\ Ran({"selfOrAdmin"}) # {}
  /\ gReq.user = NoUser
  /\ gRes.status = 401

\* C7: for adminOnly, moderatorAndAbove and coordinatorAndAbove and every
\* established claim-set, the request is forwarded iff the role is at or
\* above the floor; otherwise it is denied with 403 and the response carries
\* the required roles and the actual role.
C7_RoleFloor ==
  \A i \in Ran(FloorStages) :
    gReq.user # NoUser =>
      /\ gTrace[i].next
           <=> RoleRank(gReq.user.role) >= RoleRank(FloorOf(gTrace[i].stage))
      /\ ~gTrace[i].next =>
           /\ gRes.status = 403
           /\ {gRes.requiredRoles[j] : j \in 1..Len(gRes.requiredRoles)}
                = {r \in Roles :
                     RoleRank(r) >= RoleRank(FloorOf(gTrace[i].stage))}
           /\ gRes.userRole = gReq.user.role

\* C8: selfOrAdmin forwards every established claim-set whose id is the
\* target id of the route, of any role, and denies with 403 a claim-set that
\* is neither the target nor an admin.
C8_SelfOrPrivileged ==
  \A i \in Ran({"selfOrAdmin"}) :
    gReq.user # NoUser =>
      /\ gReq.user.id = gReq.userId => gTrace[i].next
      /\ (gReq.user.id # gReq.userId /\ gReq.user.role # "admin")
           => (~gTrace[i].next /\ gRes.status = 403)

\* a caller of role user read their own record
C8_Witness ==
  /\ gpc = "done"
  /\ gReq.user # NoUser
  /\ gReq.user.role = "user"
  /\ gReq.user.id = gReq.userId
  /\ \E i \in Ran({"selfOrAdmin"}) : gTrace[i].next
  /\ Ran({"getUserById"}) # {}
  /\ gRes.status = 200

\* C9: GET /api/users/:userId reaches the handler for the user the id names
\* and for every caller of role moderator or above; only callers below
\* moderator who are not the target are denied.
C9_SelfOrModeratorAndAbove ==
  (gpc = "done" /\ gRoute = "GET /api/users/:userId" /\ gReq.user # NoUser)
    => ( Ran({"getUserById"}) # {}
           <=> \/ gReq.user.id = gReq.userId
               \/ RoleRank(gReq.user.role) >= RoleRank("moderator") )

\* C10: a PUT /api/users/:userId or PUT /api/auth/profile request changes
\* the stored role or status of a user only when the caller's claim-set has
\* role admin.
C10_OnlyAdminsChangeRoleStatus ==
  [][ (gRoute \in {"PUT /api/users/:userId", "PUT /api/auth/profile"}
         /\ users' # users)
        => gReq.user.role = "admin" ]_vars

(***************************************************************************)
(* Properties of login and registration                                    *)
(***************************************************************************)
\* an e-mail address that no account has and no registration takes
NoSuchEmail == "nobody@x"

\* a login is answered (or being answered) for the e-mail of an account
LoginOfAccount ==
  /\ lpc # "idle"
  /\ lReq.kind = "login"
  /\ lReq.email \in DOMAIN creds
  /\ lReq.password # ""

\* the stored status of the account the login names
StoredStatus == users[creds[lReq.email].id].status

\* the secret of the login is the account's
SecretMatches == bcryptCompare(lReq.password, creds[lReq.email].password)

\* the response the same controller gives, on the same store, to the same
\* secret sent with an e-mail that matches no account
NoAccountRes ==
  AuthController_login(lImpl, NoSuchEmail, lReq.password, lReq.fault).res

\* C11 as stated: for every store state, a login with the e-mail of an
\* account and a wrong secret gets the same rejection (status and message) as
\* a login with an e-mail that matches no account.
C11_SameRejectionForEveryStore ==
  (LoginOfAccount /\ lpc = "done" /\ ~SecretMatches)
    => /\ lRes.status = NoAccountRes.status
       /\ lRes.message = NoAccountRes.message

\* C11: a login with the e-mail of an account whose stored status is not
\* deleted and a wrong secret gets the same rejection (status and message) as
\* a login with an e-mail that matches no account, 401 "Invalid email or
\* password" when the lookup answers; for an account whose stored status is
\* deleted the lookup that answers gives 401 "Account has been deactivated"
\* whatever the secret.
C11_SameRejectionUnlessDeleted ==
  (LoginOfAccount /\ lpc = "done")
    => /\ (~SecretMatches /\ StoredStatus # "deleted")
            => /\ lRes.status = NoAccountRes.status
               /\ lRes.message = NoAccountRes.message
               /\ ~lReq.fault
                    => lRes = LoginRes(401, "Invalid email or password", NoJwt)
       /\ (StoredStatus = "deleted" /\ ~lReq.fault)
            => lRes = LoginRes(401, "Account has been deactivated", NoJwt)

\* a wrong secret for the account a@x, which is not deleted, was answered
\* like an unknown e-mail, and a wrong secret was sent in a store where the
\* account is pending
C11_Witness ==
  /\ LoginOfAccount /\ lpc = "done"
  /\ ~lReq.fault
  /\ ~SecretMatches
  /\ StoredStatus = "pending"
  /\ lRes = LoginRes(401, "Invalid email or password", NoJwt)
  /\ NoAccountRes = lRes

\* the login of a deleted account with the right secret, the lookup having
\* answered, adds no Log document and hands out no token
C12_NoTokenNoRecord ==
  ( /\ lReq'.kind = "login"
    /\ ~lReq'.fault
    /\ lReq'.email \in DOMAIN creds'
    /\ users'[creds'[lReq'.email].id].status = "deleted"
    /\ bcryptCompare(lReq'.password, creds'[lReq'.email].password) )
  => (logs' = logs /\ issued' = issued)

\* C12: a login for an account whose stored status is deleted, with the
\* correct secret, is answered 401 "Account has been deactivated" (not a
\* success, not "Invalid email or password"), carries no token, never reaches
\* the token and log step, and adds no Log document.
C12_DeletedAccountDeactivated ==
  /\ []( (LoginOfAccount /\ ~lReq.fault /\ StoredStatus = "deleted"
            /\ SecretMatches)
         => /\ lpc = "done"
            /\ lRes = LoginRes(401, "Account has been deactivated", NoJwt) )
  /\ [][C12_NoTokenNoRecord]_vars

\* the deleted account a@x logged in with its own password and was told
\* the account is deactivated
C12_Witness ==
  /\ LoginOfAccount /\ lpc = "done"
  /\ ~lReq.fault
  /\ lReq.email = "a@x" /\ lReq.password = "pw1"
  /\ StoredStatus = "deleted"
  /\ SecretMatches
  /\ lRes.status = 401
  /\ lRes.message = "Account has been deactivated"
  /\ logs = << >> /\ issued = {}

\* C13: a login during which the store fails at the account lookup is
\* answered with a server fault (5xx), never with 401.
C13_StoreFaultIsServerFault ==
  (lpc = "done" /\ lReq.kind = "login" /\ lReq.fault
     /\ lReq.email # "" /\ lReq.password # "")
    => lRes.status >= 500

\* a success response (200 login, 201 registration) is sent in this step
SuccessSent == lRes.status = 0 /\ lRes'.status \in {200, 201}

LogsOf(userId) == {i \in 1..Len(logs) : logs[i].loginId = userId}

\* C18: updateLogoutTime(logId) for the _id of a document sets loggedOutAt
\* on that document, leaves every other document as it was and returns
\* success; for an _id that matches no document it returns a failure (not
\* found) and changes no document.
C18_CloseExactlyOne ==
  [][ \A impl \in {"legacy", "v2"} : \A logId \in 1..(MaxLogs + 1) :
        CallUpdateLogoutTime(impl, logId)
          => IF logId \in 1..Len(logs)
             THEN /\ svc'.success
                  /\ logs'[logId].loggedOutAt = now
                  /\ \A i \in 1..Len(logs) : i # logId => logs'[i] = logs[i]
             ELSE /\ ~svc'.success
                  /\ logs' = logs ]_vars

AuthenticateRes(impl, req) ==
  IF impl = "legacy" THEN AuthMiddleware_authenticate(req).res
  ELSE authenticate(req).res

\* C14: a request whose "Bearer" token is past its expiry (a token issued
\* with no lifetime included) is rejected by authenticate with 401, and the
\* rejection differs from the one the same stage gives to a token with a bad
\* signature and to a malformed token, so the caller can tell expiry from
\* both.
C14_ExpiredDistinguished ==
  \A i \in Ran({"authenticate"}) :
    (gReq.authorization.bearer /\ gReq.authorization.tok.integrity = "expired")
      => /\ ~gTrace[i].next
         /\ gRes.status = 401
         /\ \A t \in Tokens :
              t.integrity \in {"badsig", "malformed"}
                => AuthenticateRes(gImpl, [gReq EXCEPT !.authorization.tok = t])
                     # gRes

\* the payload of the token the request presents
PresentedClaims == gReq.authorization.tok.claims

\* the request presents a token the clients were handed and jwt.verify
\* accepts it (it is not expired)
PresentsIssuedToken ==
  /\ gpc # "idle"
  /\ gReq.authorization.tok.integrity = "valid"
  /\ \E t \in issued : t.claims = PresentedClaims

\* the gate decides on the payload of the token alone
C16_DecidedOnPayload ==
  PresentsIssuedToken =>
    /\ \A i \in Ran({"authenticate"}) :
         gTrace[i].next /\ gReq.user = PresentedClaims
    /\ \A i \in Ran(FloorStages) :
         gTrace[i].next
           <=> RoleRank(PresentedClaims.role)
                 >= RoleRank(FloorOf(gTrace[i].stage))
    /\ \A i \in Ran({"selfOrAdmin"}) :
         gTrace[i].next
           <=> (PresentedClaims.role = "admin"
                  \/ PresentedClaims.id = gReq.userId)

\* the payload of a token is the role and status the login read from the
\* store
C16_PayloadAsIssued ==
  /\ (lpc = "idle" /\ lpc' = "authenticated")
       => /\ lResult'.data.role = users[lResult'.data.id].role
          /\ lResult'.data.status = users[lResult'.data.id].status
  /\ \A t \in issued' \ issued :
       t.claims = [id |-> lResult.data.id, role |-> lResult.data.role,
                   status |-> lResult.data.status]

\* C16: a token carries the role and status the store held when the login
\* read the account, and every request that presents an issued token that
\* is not expired passes authenticate with that payload as req.user and is
\* authorised by the role floors and by selfOrAdmin on that payload alone,
\* whatever role and status the store holds for the subject by then.
C16_StaleTokenStillAuthorised ==
  /\ []C16_DecidedOnPayload
  /\ [][C16_PayloadAsIssued]_vars

\* a token issued to an admin reached the handler of the admin-only route
\* after the store had made its subject a deleted account of role user
C16_Witness ==
  /\ gpc = "done"
  /\ PresentsIssuedToken
  /\ PresentedClaims.role = "admin"
  /\ users[PresentedClaims.id].role = "user"
  /\ users[PresentedClaims.id].status = "deleted"
  /\ gRoute = "POST /api/users"
  /\ Ran({"handler"}) # {}
  /\ gRes.status = 200

(***************************************************************************)
(* Properties of the gate: token extraction and the order of the stages    *)
(***************************************************************************)
\* what the authenticate stage of a generation does with a request
AuthenticateOutcome(impl, req) ==
  IF impl = "legacy" THEN AuthMiddleware_authenticate(req)
  ELSE authenticate(req)

\* the request as it reached the first stage, with the token sent in the
\* "Bearer <token>" form or as the bare token
SentAs(bearer) ==
  [gReq EXCEPT !.authorization.bearer = bearer, !.user = NoUser]

\* C15: a request without an Authorization header passes optionalAuth
\* unauthenticated (no claim-set, no rejection); authenticate treats a token
\* sent bare exactly as the same token sent as "Bearer <token>", and a bare
\* token that verifies (its account not deleted) is authenticated: the stage
\* forwards with the token's payload as req.user.
C15_BearerAndBareAccepted ==
  /\ \A i \in Ran({"optionalAuth"}) :
       ~gReq.authorization.present
         => (gTrace[i].next /\ gReq.user = NoUser)
  /\ \A i \in Ran({"authenticate"}) :
       (gReq.authorization.present /\ gReq.authorization.tok # NoToken)
         => /\ AuthenticateOutcome(gImpl, SentAs(FALSE))
                 = AuthenticateOutcome(gImpl, SentAs(TRUE))
            /\ ( /\ ~gReq.authorization.bearer
                 /\ gReq.authorization.tok.integrity = "valid"
                 /\ gReq.authorization.tok.claims.status # "deleted" )
               => /\ gTrace[i].next
                  /\ gReq.user = gReq.authorization.tok.claims

\* the stages that decide on the established claim-set
AuthorizationStages == AuthorizeStages \cup {"selfOrAdmin", "verifiedOnly"}

\* the request entered its chain through authenticate
ThroughAuthenticate == gTrace # << >> /\ gTrace[1].stage = "authenticate"

\* the stages ran in the order of the gate and answered at most once
C20_OrderedGate ==
  ThroughAuthenticate =>
    /\ Cardinality(Ran(HandlerStages)) <= 1
    /\ \A i \in Ran(HandlerStages) :
         /\ i = 3
         /\ gTrace[1].next
         /\ gTrace[2].stage \in AuthorizationStages /\ gTrace[2].next
         /\ gReq.authorization.present
         /\ gReq.authorization.tok.integrity = "valid"
         /\ gReq.user = gReq.authorization.tok.claims
    /\ \A i \in Ran(AuthorizationStages) : i = 2 /\ gTrace[1].next
    /\ \A i \in 1..Len(gTrace) :
         (gTrace[i].stage \notin HandlerStages /\ ~gTrace[i].next)
           => /\ i = Len(gTrace)
              /\ gpc = "done"
              /\ gRes.status \in {401, 403}
              /\ gRes.message # ""
              /\ Ran(HandlerStages) = {}
    /\ gpc = "running"
         => (gRes = NoRes /\ \A i \in 1..Len(gTrace) : gTrace[i].next)

\* a response that is out is final: nothing runs after it for the request
C20_Terminal ==
  gpc = "done" => (gpc' = "idle" \/ UNCHANGED <<gpc, gRes, gTrace, gReq>>)

\* C20: for a request whose chain is authenticate, an authorization stage and
\* the handler: the handler runs at most once and only as the third step,
\* after authenticate (token extracted and verified, its payload in req.user)
\* and the authorization stage both forwarded; a stage that does not forward
\* sends a 401 or 403 with a message, is the last step of the request, and
\* the handler does not run; no stage sends a response and forwards.
C20_HandlerOnlyAfterGate ==
  /\ []C20_OrderedGate
  /\ [][C20_Terminal]_vars

\* an admin's request ran authenticate, adminOnly and the handler, in that
\* order, each once
C20_Witness ==
  /\ gpc = "done"
  /\ gRoute = "POST /api/users"
  /\ gTrace = << [stage |-> "authenticate", next |-> TRUE],
                 [stage |-> "adminOnly", next |-> TRUE],
                 [stage |-> "handler", next |-> FALSE] >>
  /\ gReq.user.role = "admin"
  /\ gRes.status = 200

(***************************************************************************)
(* Properties of the request throttle: the clean-up, the frame, the key    *)
(***************************************************************************)
\* the call the middleware just answered
LastCall == rlLog'[Len(rlLog')]

\* the entries of a sequence not older than the window: timestamp >= now - window
NotOlderThanWindow(userRequests) ==
  SelectSeq(userRequests, LAMBDA time : time >= now - windowMs)

\* C21: every run of the middleware drops exactly the entries with
\* timestamp < now - window: an entry stamped exactly now - window stays,
\* is counted against the ceiling in that run, and is still stored after it
C21_PruneKeepsBoundaryEntry ==
  [][Len(rlLog') > Len(rlLog) =>
       LET kept == NotOlderThanWindow(MapGet(requests, LastCall.key))
       IN /\ (LastCall.status = 429) = (Len(kept) >= maxRequests)
          /\ MapGet(requests', LastCall.key) =
               IF LastCall.status = 429 THEN kept ELSE Append(kept, now)]_vars

(***************************************************************************)
(* Properties of logout                                                    *)
(***************************************************************************)
\* the identity's documents with maximal loggedInAt, open or closed
MostRecentOf(userId) ==
  {r \in Docs(logs) :
     /\ r.loginId = userId
     /\ \A q \in Docs(logs) :
          q.loginId = userId => q.loggedInAt <= r.loggedInAt}

\* the step in which logout gets the answer of getLastLogin
LogoutLooksUp ==
  /\ gpc = "running"
  /\ gRoute = LogoutRoute.name
  /\ lastLoginResult = NoLastLogin
  /\ lastLoginResult' # NoLastLogin

\* the step in which logout closes (or not) and answers
LogoutCloses ==
  /\ gpc = "running"
  /\ gRoute = LogoutRoute.name
  /\ gpc' = "done"
  /\ gRes'.status = 200

LogoutAnswers ==
  /\ gpc = "running"
  /\ gChain # << >>
  /\ Head(gChain) = "logout"
  /\ gpc' = "done"

\* the documents a step changed
Modified == {i \in 1..Len(logs) : logs'[i] # logs[i]}

\* C26: a logout changes at most one document of the trail, a most recent
\* one of the caller's identity, and leaves every other document as it was
\* (older open documents of the identity and the documents of the other
\* identities included); without a document of the identity it answers
\* "Logout successful" and changes nothing
C26_LogoutTouchesOnlyMostRecent ==
  [][LogoutAnswers =>
       /\ gRes'.status = 200
       /\ Len(logs') = Len(logs)
       /\ Cardinality(Modified) <= 1
       /\ \A i \in Modified : logs[i] \in MostRecentOf(gReq.user.id)
       /\ MostRecentOf(gReq.user.id) = {} => logs' = logs]_vars

\* C27: whatever logins of the same identity run between the two store
\* calls of a logout, the document the logout closes is, when it is
\* written, a most recent document of the identity
C27_ClosesMostRecentAtWrite ==
  [][(LogoutAnswers /\ lastLoginResult.success) =>
       \E r \in MostRecentOf(gReq.user.id) :
         r.id = lastLoginResult.data.id]_vars

\* the identity logged out after its last login: its most recent document
\* is closed
LoggedOut(userId) ==
  /\ MostRecentOf(userId) # {}
  /\ \A r \in MostRecentOf(userId) : r.loggedOutAt # NoDate

\* a token whose subject logged out is treated by every stage of the gate
\* as before the logout: by its payload
C28_GateIgnoresTrail ==
  (PresentsIssuedToken /\ LoggedOut(PresentedClaims.id)) =>
    /\ \A i \in Ran({"authenticate"}) :
         /\ gTrace[i].next
         /\ gReq.user = PresentedClaims
         /\ gRes.status # 401
    /\ \A i \in Ran(FloorStages) :
         gTrace[i].next
           <=> RoleRank(PresentedClaims.role)
                 >= RoleRank(FloorOf(gTrace[i].stage))
    /\ \A i \in Ran({"selfOrAdmin"}) :
         gTrace[i].next
           <=> (PresentedClaims.role = "admin"
                  \/ PresentedClaims.id = gReq.userId)

\* a logout writes the trail only: the issued tokens and the accounts stay
C28_LogoutWritesTrailOnly ==
  LogoutAnswers => (issued' = issued /\ users' = users /\ creds' = creds)

\* C28: logout revokes nothing.  It leaves the issued tokens and the
\* accounts as they are, and a token that is not expired still passes
\* authenticate and the same authorization stages after its subject logged
\* out, since no stage of the gate reads the session trail.
C28_LogoutDoesNotRevoke ==
  /\ []C28_GateIgnoresTrail
  /\ [][C28_LogoutWritesTrailOnly]_vars

\* after its logout the moderator's token reached the handler of the
\* moderator-and-above route
C28_Witness ==
  /\ gpc = "done"
  /\ PresentsIssuedToken
  /\ LoggedOut(PresentedClaims.id)
  /\ gRoute = "GET /api/users"
  /\ Ran({"handler"}) # {}
  /\ gRes.status = 200

\* the step in which the rateLimit middleware of a route runs
RateLimitRuns ==
  /\ gpc = "running"
  /\ gChain # << >>
  /\ Head(gChain) = "rateLimit"
  /\ call' # NoCall

\* C23: the key of the throttle is req.user.id when a stage before it set
\* req.user, and req.ip otherwise; on the participants route no stage runs
\* before the throttle, so the key is req.ip whatever token the request
\* carries
C23_KeyIsSubjectOrOrigin ==
  [][RateLimitRuns =>
       /\ call'.key = IF gReq.user # NoUser THEN gReq.user.id ELSE gReq.ip
       /\ gRoute = ParticipantRoute.name => call'.key = gReq.ip
       /\ (gRoute = ThrottledStageRoute.name
             /\ gReq.authorization.tok.integrity = "valid")
            => call'.key = gReq.authorization.tok.claims.id]_vars

\* a request with a token that verifies was throttled on the participants
\* route under its origin
C23_Witness ==
  /\ gRoute = ParticipantRoute.name
  /\ gReq.authorization.tok.integrity = "valid"
  /\ call # NoCall
  /\ call.key = gReq.ip
  /\ gReq.ip = "ip2"

\* the keys and the times of the throttled routes
AllKeys == {"ip1", "ip2"} \cup UserIds

LaterTimes == {t \in {n * TickMs : n \in 0..MaxClockTicks} : t >= now}

\* what an instance with this Map would decide for a key at a time
WouldDeny(map, ceiling, window, k, t) ==
  Len(SelectSeq(MapGet(map, k), LAMBDA time : time > t - window)) >= ceiling

\* C25: a call that is denied appends no timestamp for its key (it leaves
\* the entries of the window and nothing else), and no call
\* of an instance, admitted or denied, changes the sequence stored for
\* another key or the later decisions for it, nor anything in the Map of the
\* other instance
C25_DeniedLeavesBudgetAndOthers ==
  [][RateLimitRuns =>
       LET first == gRoute = ParticipantRoute.name
           before == IF first THEN requests ELSE other.requests
           after == IF first THEN requests' ELSE other.requests'
           ceiling == IF first THEN maxRequests ELSE other.maxRequests
           window == IF first THEN windowMs ELSE other.windowMs
       IN /\ call'.status = 429 =>
               MapGet(after, call'.key)
                 = SelectSeq(MapGet(before, call'.key),
                             LAMBDA time : time > now - window)
          /\ \A k \in AllKeys \ {call'.key} :
               /\ MapGet(after, k) = MapGet(before, k)
               /\ \A t \in LaterTimes :
                    WouldDeny(after, ceiling, window, k, t)
                      = WouldDeny(before, ceiling, window, k, t)
          /\ IF first THEN other' = other ELSE requests' = requests
          /\ \A k \in AllKeys : \A t \in LaterTimes :
               IF first
               THEN WouldDeny(other.requests', other.maxRequests,
                              other.windowMs, k, t)
                      = WouldDeny(other.requests, other.maxRequests,
                                  other.windowMs, k, t)
               ELSE WouldDeny(requests', maxRequests, windowMs, k, t)
                      = WouldDeny(requests, maxRequests, windowMs, k, t)]_vars

\* the first instance denied a request of a key while it held a sequence
\* for another key and the other instance held one for the same key
C25_Witness ==
  /\ gRoute = ParticipantRoute.name
  /\ call.status = 429
  /\ \E k \in DOMAIN requests : k # call.key /\ requests[k] # << >>
  /\ call.key \in DOMAIN other.requests
  /\ other.requests[call.key] # << >>

\* the middleware that caught an error called next() and sent nothing
C30_CaughtCallsNext ==
  (RateLimitRuns /\ call'.threw) =>
    /\ call'.status = 0
    /\ gRes' = NoRes
    /\ gTrace' = Append(gTrace, [stage |-> "rateLimit", next |-> TRUE])
    /\ gChain' = Tail(gChain)
    /\ gpc' = "running"

\* the request whose throttle caught an error goes through the rest of its
\* chain once and is never answered with 429
C30_ForwardedOnce ==
  (call # NoCall /\ call.threw) =>
    /\ Cardinality(Ran({"rateLimit"})) = 1
    /\ \A i \in Ran({"rateLimit"}) : gTrace[i].next
    /\ Cardinality(Ran({"createParticipant", "handler"})) <= 1
    /\ gRes.status # 429
    /\ gpc = "done" => Cardinality(Ran({"createParticipant", "handler"})) = 1

\* C30: the throttle fails open.  When its bookkeeping throws, the catch
\* block calls next(): the request reaches the next stage exactly once, and
\* no 429 is sent for it.
C30_ThrottleFailsOpen ==
  /\ []C30_ForwardedOnce
  /\ [][C30_CaughtCallsNext]_vars

\* a request of a key that had used up its ceiling reached the handler
\* because the bookkeeping threw
C30_Witness ==
  /\ gpc = "done"
  /\ gRoute = ParticipantRoute.name
  /\ call.threw
  /\ Len(MapGet(requests, call.key)) >= maxRequests
  /\ \A i \in 1..Len(MapGet(requests, call.key)) :
       /\ MapGet(requests, call.key)[i] > call.time - windowMs
       /\ MapGet(requests, call.key)[i] < call.time
  /\ Ran({"createParticipant"}) # {}
  /\ gRes.status = 200

(***************************************************************************)
(* Properties of registration and of the token refresh                     *)
(***************************************************************************)
\* C29: an account created through POST /api/auth/register has role user,
\* and no token handed out for it claims a role above user (the model has
\* no admin-gated operation that could have raised it)
C29_RegisteredAccountsAreUsers ==
  /\ NewUserId \in DOMAIN users => users[NewUserId].role = "user"
  /\ \A t \in issued : t.claims.id = NewUserId => t.claims.role = "user"

\* the step in which the refresh handler answers
RefreshAnswers ==
  /\ gpc = "running"
  /\ gChain # << >>
  /\ Head(gChain) = "refreshToken"
  /\ gpc' = "done"

====
